---- MODULE Spec2Model ----
(***************************************************************************)
(* A model of the zmap_embedded_ip scan engine: the sender thread          *)
(* (src/send.c), the packet helpers (src/probe_modules/packet.h, packet.c) *)
(* and the DNS probe module (src/probe_modules/module_dns.c).              *)
(*                                                                         *)
(* Specifications:                                                         *)
(*   Spec      one sender thread running send_run over its shard           *)
(*   SpecPorts get_src_port and check_dst_port on bounded inputs           *)
(*   SpecInit  send_init on bounded configurations, then sender start      *)
(*   SpecThreads, SpecThreadsFair  concurrent senders around send_mutex    *)
(*   SpecSrcIp get_src_ip on bounded destinations and source pools         *)
(*   SpecRate  the SIGUSR1 / SIGUSR2 handlers and the senders' pacing      *)
(*   SpecDns   the DNS module: initialize, build a query, validate and     *)
(*             process a response                                          *)
(*   SpecDnsPad  SpecDns started with the target address embedding on      *)
(*   SpecFair  Spec with the sender thread scheduled fairly                *)
(*   SpecList  Spec over a list of addresses and a longer shard            *)
(*   SpecPace  the spin-delay controller of send_run                       *)
(*   SpecCksum the IPv4 header checksum on bounded headers                 *)
(*   SpecName, SpecNameFair  get_name on bounded payloads                  *)
(*   SpecParse the record sections of a response in dns_process_packet     *)
(***************************************************************************)
EXTENDS Integers, Sequences, FiniteSets, TLC

VARIABLES
    \* ---- send_run (src/send.c) ----
    zconf,          \* the configuration fields send_run reads
    ipv6,           \* static int ipv6 (send.c:51), set by send_init
    pbm,            \* zsend.list_of_ips_pbm: the set of listed addresses
    shard,          \* shard_t *s: targets, position, state counters
    ipv6_file,      \* the IPv6 target file: addresses and read position
    pc,             \* position of the sender thread inside send_run
    send_mutex,     \* send_mutex (send.c:45): TRUE when held
    current,        \* target_t current
    current_ip,     \* uint32_t current_ip
    current_port,   \* uint16_t current_port
    ipv6_dst,       \* struct in6_addr ipv6_dst
    probe_i,        \* the packet_streams loop counter i
    batch,          \* batch->packets[0 .. batch->len-1]
    zrecv_complete, \* zrecv.complete
    runtime_over,   \* zconf.max_runtime <= now() - zsend.start
    built,          \* history: every probe make_packet built, in order
    sb,             \* history: the send_batch calls, what they were handed
                    \* and what they reported
    printed,        \* history: every packet handed to print_packet
    cb_calls,       \* history: number of calls of s->cb
    ret,            \* what send_run returned
    \* ---- source-port selection and validation (packet.h) ----
    port_in,        \* the inputs: V[1], the source port range, packet_streams
    port_out,       \* the last call and its result
    \* ---- the DNS probe module (module_dns.c, packet.c) ----
    dns_conf,       \* zconf as the DNS module reads it
    dns_mod,        \* the module's globals: phase, questions, packets
    dns_probe,      \* the last probe dns_make_packet built and its inputs
    dns_resp,       \* the response in hand, the verdict and the record
    \* ---- send_init (send.c:72-203) ----
    init_conf,      \* zconf / zsend and the environment as send_init sees them
    init_out,       \* how send_init ended, the rate it set, senders started
    \* ---- the rate knob (send.c:55-69, 271-386) ----
    zconf_rate,     \* zconf.rate
    sig_h,          \* the signal handler activations in progress
    sig_log,        \* the rate at start, the signals delivered, the last update
    snd_pace,       \* each sender's pacing state
    \* ---- get_src_ip (send.c:205-212) ----
    src_in,         \* destination, probe number and source pool
    src_out,        \* the source address chosen
    \* ---- concurrent senders and send_mutex (send.c:215-250) ----
    thr,            \* where each sender thread is
    mutex_owner,    \* the thread holding send_mutex, 0 if free
    proc_exited,    \* log_fatal has ended the process
    \* ---- the spin-delay controller (send.c:263-386) ----
    pace,           \* the controller's delay, interval, count, last_count
    \* ---- zmap_ip_checksum (packet.h:80-109) ----
    ck_in,          \* an IPv4 header as ten 16-bit words, checksum field 0
    ck_out,         \* the checksum computed for it
    \* ---- get_name_helper (module_dns.c:208-360) ----
    gn_in,          \* the payload, where the data starts, the name length
    gn,             \* the innermost get_name_helper call and its callers
    \* ---- the record sections (module_dns.c:1053-1124) ----
    pr_in,          \* a response: success, UDP length, record counts, records
    pr_out          \* the DNS record fields emitted for it

sendVars == <<zconf, ipv6, pbm, shard, ipv6_file, pc, send_mutex, current,
              current_ip, current_port, ipv6_dst, probe_i, batch,
              zrecv_complete, runtime_over, built, sb, printed,
              cb_calls, ret>>

portVars == <<port_in, port_out>>

dnsVars == <<dns_conf, dns_mod, dns_probe, dns_resp>>

initVars == <<init_conf, init_out>>

rateVars == <<zconf_rate, sig_h, sig_log, snd_pace>>

srcVars == <<src_in, src_out>>

thrVars == <<thr, mutex_owner, proc_exited>>

paceVars == <<pace>>

cksumVars == <<ck_in, ck_out>>

nameVars == <<gn_in, gn>>

parseVars == <<pr_in, pr_out>>

vars ==
    <<sendVars, portVars, dnsVars, initVars, rateVars, srcVars, thrVars,
      paceVars,
      cksumVars,
      nameVars,
      parseVars>>

----------------------------------------------------------------------------
\* Bounds of the model

MaxTargets == 2         \* longest shard / IPv6 target file
MaxListTargets == 4     \* longest shard in SpecList
MaxStreams == 3         \* largest zconf.packet_streams
MaxBatch == 2           \* largest zconf.batch
MaxPorts == 4           \* widest source port range in SpecPorts
MaxDnsPorts == 2        \* widest source port range in SpecDns
MaxStarted == 2         \* sender threads followed after send_init
MaxThreads == 3         \* concurrent sender threads
MaxPool == 4            \* source addresses in the pool
MaxCount == 130         \* probes a sender of SpecPace counts
SignalBurst == 25       \* SIGUSR2 signals in one burst of SpecPace
MaxPayload == 4         \* longest payload get_name_helper is given
MaxRecords == 3         \* most records in a response of SpecParse
MaxAnswers == 2         \* largest ancount in SpecParse
MaxSignals == 3         \* SIGUSR1 / SIGUSR2 deliveries in one run

----------------------------------------------------------------------------
\* Program constants

ZMAP_SHARD_READY == 0
ZMAP_SHARD_DONE == 1
EXIT_SUCCESS == 0
EXIT_FAILURE == 1

Min(a, b) == IF a < b THEN a ELSE b
Max(a, b) == IF a > b THEN a ELSE b

\* addresses and ports targets are drawn from (0 is never a scan target)
Addrs == {1, 2}
Ports == {53, 80}
Targets == Addrs \X Ports

\* the sequences of at most n elements of S without repetition
RECURSIVE SeqsNoDup(_, _)
SeqsNoDup(S, n) ==
    IF n = 0 THEN {<<>>}
    ELSE LET shorter == SeqsNoDup(S, n - 1)
             ext == {p \in shorter \X S :
                        \A i \in 1 .. Len(p[1]) : p[1][i] # p[2]}
         IN shorter \cup {Append(p[1], p[2]) : p \in ext}

----------------------------------------------------------------------------
\* The shard iterator as the sender sees it

DoneTarget == [ip |-> 0, port |-> 0, status |-> ZMAP_SHARD_DONE]

TargetAt(sh, p) ==
    IF p >= 1 /\ p <= Len(sh.targets)
    THEN [ip |-> sh.targets[p][1], port |-> sh.targets[p][2],
          status |-> ZMAP_SHARD_READY]
    ELSE DoneTarget

shard_get_cur_target(sh) == TargetAt(sh, sh.pos)

\* advances the shard; the new current target is shard_get_cur_target of it
shard_advance(sh) == [sh EXCEPT !.pos = Min(sh.pos + 1, Len(sh.targets) + 1)]

pbm_check(bitmap, ip) == ip \in bitmap

----------------------------------------------------------------------------
\* send_run, one sender thread (src/send.c:215-543)

\* what send_batch may report for a batch of n packets: a negative value when
\* nothing could be sent, otherwise the number of packets accepted
SendBatchResults(n) == IF n = 0 THEN {0} ELSE -1 .. n

\* the probe make_packet builds into batch->packets[batch->len]
MakePacket(ip, port, i, dst6) ==
    [ip |-> ip, port |-> port, probe_num |-> i, ip6 |-> dst6]

\* ipv6_target_file_get_ipv6: 0 and the next address, or nonzero at the end
ipv6_target_file_get_ipv6(f) ==
    IF f.pos <= Len(f.addrs)
    THEN [ret |-> 0, dst |-> f.addrs[f.pos], file |-> [f EXCEPT !.pos = @ + 1]]
    ELSE [ret |-> 1, dst |-> 0, file |-> f]

\* the loop of send.c:324-335: advance until current_ip is on the list
RECURSIVE FirstListLoop(_, _, _, _, _)
FirstListLoop(sh, cur, ip, port, bitmap) ==
    IF pbm_check(bitmap, ip)
    THEN [shard |-> sh, current |-> cur, ip |-> ip, port |-> port,
          cleanup |-> FALSE]
    ELSE LET sh2 == shard_advance(sh)
             nxt == shard_get_cur_target(sh2)
         IN IF nxt.status = ZMAP_SHARD_DONE
            THEN [shard |-> sh2, current |-> nxt, ip |-> nxt.ip,
                  port |-> nxt.port, cleanup |-> TRUE]
            ELSE FirstListLoop(sh2, nxt, nxt.ip, nxt.port, bitmap)

\* the loop of send.c:506-517: current_port is not assigned in it
RECURSIVE NextListLoop(_, _, _, _, _)
NextListLoop(sh, cur, ip, port, bitmap) ==
    IF pbm_check(bitmap, ip)
    THEN [shard |-> sh, current |-> cur, ip |-> ip, port |-> port,
          cleanup |-> FALSE]
    ELSE LET sh2 == shard_advance(sh)
             nxt == shard_get_cur_target(sh2)
         IN IF nxt.status = ZMAP_SHARD_DONE
            THEN [shard |-> sh2, current |-> nxt, ip |-> nxt.ip,
                  port |-> port, cleanup |-> TRUE]
            ELSE NextListLoop(sh2, nxt, nxt.ip, port, bitmap)

\* the ways a run can be told to stop early: max_targets, max_packets,
\* max_runtime
StopOptions ==
    {[max_targets |-> 0, max_packets |-> 0, max_runtime |-> 0],
     [max_targets |-> 1, max_packets |-> 0, max_runtime |-> 0],
     [max_targets |-> 0, max_packets |-> 1, max_runtime |-> 0],
     [max_targets |-> 0, max_packets |-> 0, max_runtime |-> 1]}

SendInitState ==
    /\ \E dry \in BOOLEAN, ps \in 1 .. MaxStreams, cap \in 1 .. MaxBatch,
          list \in BOOLEAN, stop \in StopOptions :
          /\ zconf = [dryrun |-> dry, packet_streams |-> ps, batch |-> cap,
                      list_of_ips_filename |-> list,
                      ports |-> <<53, 80>>,
                      max_runtime |-> stop.max_runtime]
          /\ ipv6 \in BOOLEAN
          /\ pbm \in IF list /\ ~ipv6 THEN SUBSET Addrs \ {{}} ELSE {{}}
          /\ \E ts \in SeqsNoDup(Targets, MaxTargets) :
                /\ ipv6 => ts = <<>>
                /\ shard = [targets |-> ts, pos |-> 1,
                            state |-> [packets_sent |-> 0,
                                       packets_failed |-> 0,
                                       targets_scanned |-> 0,
                                       max_targets |-> stop.max_targets,
                                       max_packets |-> stop.max_packets]]
          /\ \E as \in SeqsNoDup(Addrs, MaxTargets) :
                /\ ~ipv6 => as = <<>>
                /\ ipv6_file = [addrs |-> as, pos |-> 1]
    /\ pc = "start"
    /\ send_mutex = FALSE
    /\ current = DoneTarget
    /\ current_ip = 0
    /\ current_port = 0
    /\ ipv6_dst = 0
    /\ probe_i = 0
    /\ batch = <<>>
    /\ zrecv_complete = FALSE
    /\ runtime_over = FALSE
    /\ built = <<>>
    /\ sb = [calls |-> 0, pkts |-> <<>>, accepted |-> 0, shortfall |-> 0]
    /\ printed = <<>>
    /\ cb_calls = 0
    /\ ret = -1

\* the entry state of a transmitting IPv4 sender that was given a list of
\* IPs and a shard of up to MaxListTargets targets
SendListState ==
    /\ \E ps \in 1 .. 2, rt \in 0 .. 1 :
          zconf = [dryrun |-> FALSE, packet_streams |-> ps, batch |-> 1,
                   list_of_ips_filename |-> TRUE, ports |-> <<53, 80>>,
                   max_runtime |-> rt]
    /\ ipv6 = FALSE
    /\ pbm \in SUBSET Addrs \ {{}}
    /\ \E ts \in SeqsNoDup(Targets, MaxListTargets) :
          shard = [targets |-> ts, pos |-> 1,
                   state |-> [packets_sent |-> 0, packets_failed |-> 0,
                              targets_scanned |-> 0, max_targets |-> 0,
                              max_packets |-> 0]]
    /\ ipv6_file = [addrs |-> <<>>, pos |-> 1]
    /\ pc = "start"
    /\ send_mutex = FALSE
    /\ current = DoneTarget
    /\ current_ip = 0
    /\ current_port = 0
    /\ ipv6_dst = 0
    /\ probe_i = 0
    /\ batch = <<>>
    /\ zrecv_complete = FALSE
    /\ runtime_over = FALSE
    /\ built = <<>>
    /\ sb = [calls |-> 0, pkts |-> <<>>, accepted |-> 0, shortfall |-> 0]
    /\ printed = <<>>
    /\ cb_calls = 0
    /\ ret = -1

\* send.c:217-220: take send_mutex, allocate the batch
SendRunStart ==
    /\ pc = "start"
    /\ ~send_mutex
    /\ send_mutex' = TRUE
    /\ batch' = <<>>
    /\ pc' = "init"
    /\ UNCHANGED <<zconf, ipv6, pbm, shard, ipv6_file, current, current_ip,
                   current_port, ipv6_dst, probe_i, zrecv_complete,
                   runtime_over, built, sb, printed, cb_calls, ret>>

\* send.c:223-226: send_run_init fails
SendRunInitFails ==
    /\ pc = "init"
    /\ send_mutex' = FALSE
    /\ ret' = EXIT_FAILURE
    /\ pc' = "returned"
    /\ UNCHANGED <<zconf, ipv6, pbm, shard, ipv6_file, current, current_ip,
                   current_port, ipv6_dst, probe_i, batch, zrecv_complete,
                   runtime_over, built, sb, printed, cb_calls>>

\* send.c:243-248: the module's thread_initialize fails, log_fatal exits
ThreadInitializeFails ==
    /\ pc = "init"
    /\ send_mutex' = FALSE
    /\ pc' = "fatal"
    /\ UNCHANGED <<zconf, ipv6, pbm, shard, ipv6_file, current, current_ip,
                   current_port, ipv6_dst, probe_i, batch, zrecv_complete,
                   runtime_over, built, sb, printed, cb_calls, ret>>

\* send.c:223-260: start-up succeeds, the mutex is released
SendRunInitOk ==
    /\ pc = "init"
    /\ send_mutex' = FALSE
    /\ pc' = "first"
    /\ UNCHANGED <<zconf, ipv6, pbm, shard, ipv6_file, current, current_ip,
                   current_port, ipv6_dst, probe_i, batch, zrecv_complete,
                   runtime_over, built, sb, printed, cb_calls, ret>>

\* send.c:304-337: get the initial target
GetFirstTarget ==
    /\ pc = "first"
    /\ IF ipv6 # FALSE
       THEN LET r == ipv6_target_file_get_ipv6(ipv6_file)
            IN /\ ipv6_file' = r.file
               /\ IF r.ret # 0
                  THEN /\ pc' = "cleanup"
                       /\ UNCHANGED <<ipv6_dst, current_port>>
                  ELSE /\ ipv6_dst' = r.dst
                       /\ current_port' = zconf.ports[1]
                       /\ pc' = "loop"
               /\ UNCHANGED <<shard, current, current_ip>>
       ELSE LET cur == shard_get_cur_target(shard)
            IN /\ IF zconf.list_of_ips_filename
                  THEN LET r == FirstListLoop(shard, cur, current_ip,
                                              current_port, pbm)
                       IN /\ shard' = r.shard
                          /\ current' = r.current
                          /\ current_ip' = r.ip
                          /\ current_port' = r.port
                          /\ pc' = IF r.cleanup THEN "cleanup" ELSE "loop"
                  ELSE /\ current' = cur
                       /\ pc' = "loop"
                       /\ UNCHANGED <<shard, current_ip, current_port>>
               /\ UNCHANGED <<ipv6_file, ipv6_dst>>
    /\ UNCHANGED <<zconf, ipv6, pbm, send_mutex, probe_i, batch,
                   zrecv_complete, runtime_over, built, sb, printed,
                   cb_calls, ret>>

\* a stop test that does not look at the receiver's flag
MustStopIgnoringReceiver ==
    \/ (zconf.max_runtime # 0 /\ runtime_over)
    \/ (shard.state.max_targets # 0 /\
        shard.state.targets_scanned >= shard.state.max_targets)
    \/ (shard.state.max_packets # 0 /\
        shard.state.packets_sent >= shard.state.max_packets)
    \/ (ipv6 = FALSE /\ current.status = ZMAP_SHARD_DONE)

\* send.c:388-421: the stop conditions checked before every target
MustStop ==
    \/ zrecv_complete
    \/ (zconf.max_runtime # 0 /\ runtime_over)
    \/ (shard.state.max_targets # 0 /\
        shard.state.targets_scanned >= shard.state.max_targets)
    \/ (shard.state.max_packets # 0 /\
        shard.state.packets_sent >= shard.state.max_packets)
    \/ (ipv6 = FALSE /\ current.status = ZMAP_SHARD_DONE)

LoopCheck ==
    /\ pc = "loop"
    /\ IF MustStop
       THEN pc' = "cleanup" /\ UNCHANGED probe_i
       ELSE pc' = "build" /\ probe_i' = 0
    /\ UNCHANGED <<zconf, ipv6, pbm, shard, ipv6_file, send_mutex, current,
                   current_ip, current_port, ipv6_dst, batch, zrecv_complete,
                   runtime_over, built, sb, printed, cb_calls, ret>>

\* send.c:471-480: what a full batch's send_batch result adds to packets_failed
FailedOfBatch(len, rc) == IF rc < 0 THEN len ELSE len - rc

\* the record of one send_batch call on packets b that reported rc
RecordSendBatch(h, b, rc) ==
    [calls |-> h.calls + 1,
     pkts |-> h.pkts \o b,
     accepted |-> h.accepted + (IF rc < 0 THEN 0 ELSE rc),
     shortfall |-> h.shortfall + (IF rc < 0 THEN Len(b) ELSE Len(b) - rc)]

\* a counter that skips the increment
CountPacketSentNever(n) == n

\* s->state.packets_sent++ (send.c:485), once per probe built
CountPacketSent(n) == n + 1

\* a print loop that starts at the second packet
PrintBatchFromSecond(out, b) == out \o (IF b = <<>> THEN b ELSE Tail(b))

\* send.c:458-463 and 525-530: print_packet on packets[0 .. len-1], in order
PrintBatch(out, b) == out \o b

\* a fullness test that is one packet late
BatchFullLate(b, capacity) == Len(b) = capacity + 1

\* batch->len == batch->capacity (send.c:457 and 469)
BatchFull(b, capacity) == Len(b) = capacity

\* a batch that keeps its packets after it was submitted
KeepBatch(b) == b

\* batch->len = 0 (send.c:465 and 482), after a full batch was printed or sent
ResetBatch(b) == <<>>

\* send.c:422-486: one iteration of the packet_streams loop
BuildProbe ==
    /\ pc = "build"
    /\ LET pkt == MakePacket(current_ip, current_port, probe_i, ipv6_dst)
           full == Append(batch, pkt)
       IN /\ built' = Append(built, pkt)
          /\ IF BatchFull(full, zconf.batch)
             THEN IF zconf.dryrun
                  THEN /\ printed' = PrintBatch(printed, full)
                       /\ batch' = ResetBatch(full)
                       /\ shard' = [shard EXCEPT !.state.packets_sent =
                                        CountPacketSent(@)]
                       /\ UNCHANGED sb
                  ELSE \E rc \in SendBatchResults(Len(full)) :
                          /\ sb' = RecordSendBatch(sb, full, rc)
                          /\ shard' = [shard EXCEPT
                                 !.state.packets_failed =
                                     @ + FailedOfBatch(Len(full), rc),
                                 !.state.packets_sent = CountPacketSent(@)]
                          /\ batch' = ResetBatch(full)
                          /\ UNCHANGED printed
             ELSE /\ batch' = full
                  /\ shard' = [shard EXCEPT !.state.packets_sent =
                                   CountPacketSent(@)]
                  /\ UNCHANGED <<sb, printed>>
    /\ IF probe_i + 1 < zconf.packet_streams
       THEN probe_i' = probe_i + 1 /\ pc' = "build"
       ELSE probe_i' = probe_i + 1 /\ pc' = "advance"
    /\ UNCHANGED <<zconf, ipv6, pbm, ipv6_file, send_mutex, current,
                   current_ip, current_port, ipv6_dst, zrecv_complete,
                   runtime_over, cb_calls, ret>>

\* send.c:487-519: count the target and fetch the next one
AdvanceTarget ==
    /\ pc = "advance"
    /\ LET counted == [shard EXCEPT !.state.targets_scanned = @ + 1]
       IN IF ipv6 # FALSE
          THEN LET r == ipv6_target_file_get_ipv6(ipv6_file)
               IN /\ ipv6_file' = r.file
                  /\ shard' = counted
                  /\ IF r.ret # 0
                     THEN pc' = "cleanup" /\ UNCHANGED ipv6_dst
                     ELSE pc' = "loop" /\ ipv6_dst' = r.dst
                  /\ UNCHANGED <<current, current_ip, current_port>>
          ELSE LET sh2 == shard_advance(counted)
                   nxt == shard_get_cur_target(sh2)
               IN /\ IF zconf.list_of_ips_filename /\
                        nxt.status # ZMAP_SHARD_DONE
                     THEN LET r == NextListLoop(sh2, nxt, nxt.ip, nxt.port,
                                                pbm)
                          IN /\ shard' = r.shard
                             /\ current' = r.current
                             /\ current_ip' = r.ip
                             /\ current_port' = r.port
                             /\ pc' = IF r.cleanup THEN "cleanup"
                                      ELSE "loop"
                     ELSE /\ shard' = sh2
                          /\ current' = nxt
                          /\ current_ip' = nxt.ip
                          /\ current_port' = nxt.port
                          /\ pc' = "loop"
                  /\ UNCHANGED <<ipv6_file, ipv6_dst>>
    /\ UNCHANGED <<zconf, ipv6, pbm, send_mutex, probe_i, batch,
                   zrecv_complete, runtime_over, built, sb, printed,
                   cb_calls, ret>>

\* s->cb(s->thread_id, s->arg) (send.c:535)
CompletionCallback(n) == n + 1

\* send.c:521-543: drain the batch, call back, return
Cleanup ==
    /\ pc = "cleanup"
    /\ IF zconf.dryrun
       THEN /\ printed' = PrintBatch(printed, batch)
            /\ batch' = <<>>
            /\ UNCHANGED sb
       ELSE \E rc \in SendBatchResults(Len(batch)) :
               /\ sb' = RecordSendBatch(sb, batch, rc)
               /\ UNCHANGED <<printed, batch>>
    /\ cb_calls' = CompletionCallback(cb_calls)
    /\ ret' = EXIT_SUCCESS
    /\ pc' = "returned"
    /\ UNCHANGED <<zconf, ipv6, pbm, shard, ipv6_file, send_mutex, current,
                   current_ip, current_port, ipv6_dst, probe_i,
                   zrecv_complete, runtime_over, built>>

\* the receiver sets zrecv.complete while the sender runs
RecvComplete ==
    /\ pc \notin {"start", "returned", "fatal"}
    /\ ~zrecv_complete
    /\ zrecv_complete' = TRUE
    /\ UNCHANGED <<zconf, ipv6, pbm, shard, ipv6_file, pc, send_mutex,
                   current, current_ip, current_port, ipv6_dst, probe_i,
                   batch, runtime_over, built, sb, printed, cb_calls, ret>>

\* the clock passes zsend.start + zconf.max_runtime
RuntimeElapses ==
    /\ pc \notin {"start", "returned", "fatal"}
    /\ zconf.max_runtime # 0
    /\ ~runtime_over
    /\ runtime_over' = TRUE
    /\ UNCHANGED <<zconf, ipv6, pbm, shard, ipv6_file, pc, send_mutex,
                   current, current_ip, current_port, ipv6_dst, probe_i,
                   batch, zrecv_complete, built, sb, printed, cb_calls, ret>>


----------------------------------------------------------------------------
\* Claims about send_run, checked under Spec

\* the targets the shard has returned with status READY so far
YieldedTargets ==
    IF pc \in {"start", "init", "first"} THEN <<>>
    ELSE SubSeq(shard.targets, 1, Min(shard.pos, Len(shard.targets)))

\* C1: in IPv4 mode without a list of IPs, the k-th probe built is addressed
\* to the shard's ((k-1) div packet_streams + 1)-th yielded target and has
\* probe_num (k-1) mod packet_streams; no probe is built for an (ip, port)
\* the shard did not yield.
C1_ProbesFollowShard ==
    (ipv6 = FALSE /\ ~zconf.list_of_ips_filename) =>
        \A k \in 1 .. Len(built) :
            LET t == ((k - 1) \div zconf.packet_streams) + 1
            IN /\ t <= Len(YieldedTargets)
               /\ built[k].ip = YieldedTargets[t][1]
               /\ built[k].port = YieldedTargets[t][2]
               /\ built[k].probe_num = (k - 1) % zconf.packet_streams

C7_FailedEqualsShortfall == shard.state.packets_failed = sb.shortfall

\* C8: a send_run that has returned has called the completion callback
\* exactly once.
C8_CallbackOnEveryReturn == pc = "returned" => cb_calls = 1

\* C9: in dry-run mode send_batch is never called, and the packets printed
\* are the probes built, once each and in the order built: those not yet
\* printed are the ones in the batch, and all are printed on return.
C9_DryRunPrintsEveryProbe ==
    zconf.dryrun =>
        /\ sb.calls = 0
        /\ PrintBatch(printed, batch) = built
        /\ (pc = "returned" /\ ret = EXIT_SUCCESS) =>
               (printed = built /\ batch = <<>>)

\* a dry run that printed a full batch and then flushed a partial one
C9_Witness ==
    /\ zconf.dryrun
    /\ pc = "returned"
    /\ zconf.batch = 2
    /\ Len(printed) = 3
    /\ Len(built) = 3

\* C21: when not in dry-run mode, the packets handed to send_batch followed
\* by those waiting in the batch are the probes built, once each and in the
\* order built; every call before the drain hands over a full batch; and
\* after a return through cleanup the packets handed over are exactly the
\* probes built.
C21_EveryProbeSubmittedOnce ==
    ~zconf.dryrun =>
        /\ pc # "returned" =>
               /\ sb.pkts \o batch = built
               /\ Len(sb.pkts) = sb.calls * zconf.batch
        /\ (pc = "returned" /\ ret = EXIT_SUCCESS) => sb.pkts = built

\* a transmitting run that submitted a full batch, then drained a partial
\* one, and returned
C21_Witness ==
    /\ ~zconf.dryrun
    /\ pc = "returned"
    /\ ret = EXIT_SUCCESS
    /\ zconf.batch = 2
    /\ sb.calls = 2
    /\ Len(sb.pkts) = 3

\* the receiver has finished or the run time is used up
StopSignalled ==
    zrecv_complete \/ (zconf.max_runtime # 0 /\ runtime_over)

\* the sender is past its start-up section and has not returned
InSendLoop == pc \in {"first", "loop", "build", "advance", "cleanup"}

\* C22: once zrecv.complete is set or max_runtime has elapsed, the test
\* before a target never starts that target; a probe is built only inside a
\* packet_streams loop that was already in progress; and the sender then
\* drains its batch and returns through cleanup.
C22_CooperativeStop ==
    /\ [][StopSignalled =>
              /\ (pc # "build" => pc' # "build")
              /\ (built' # built => pc = "build")]_vars
    /\ ((StopSignalled /\ InSendLoop) ~>
            (/\ pc = "returned"
             /\ ret = EXIT_SUCCESS
             /\ cb_calls = 1
             /\ ~zconf.dryrun => sb.pkts = built))

\* a run that nothing but the receiver's flag stopped: it returned through
\* cleanup with a target still current and with probes built
C22_Witness ==
    /\ zrecv_complete
    /\ pc = "returned"
    /\ ret = EXIT_SUCCESS
    /\ ipv6 = FALSE
    /\ ~zconf.list_of_ips_filename
    /\ current.status = ZMAP_SHARD_READY
    /\ shard.state.max_targets = 0
    /\ shard.state.max_packets = 0
    /\ zconf.max_runtime = 0
    /\ Len(built) > 0

\* C23: when the shard's max_packets is nonzero, packets_sent never exceeds
\* it, for every packet_streams and every batch size.
C23_PacketsSentWithinMax ==
    shard.state.max_packets # 0 =>
        shard.state.packets_sent <= shard.state.max_packets

\* C24: with a list of IPs, whenever a probe is about to be built the
\* address and port in use are those of the target the shard returned last,
\* that address is on the list, and targets_scanned counts only the targets
\* probed, never a skipped one.
C24_ListProbesSelectedTarget ==
    (zconf.list_of_ips_filename /\ ipv6 = FALSE) =>
        /\ pc = "build" =>
               /\ current.status = ZMAP_SHARD_READY
               /\ pbm_check(pbm, current_ip)
               /\ current_ip = current.ip
               /\ current_port = current.port
        /\ pc = "loop" =>
               shard.state.targets_scanned * zconf.packet_streams =
                   Len(built)

\* C28: the batch never holds as many packets as its capacity when control
\* is outside the submission of a full batch, so make_packet always writes
\* inside the array; and the packets waiting are those built since the last
\* full batch, none right after a full batch was submitted.
C28_BatchWithinCapacity ==
    /\ Len(batch) >= 0
    /\ Len(batch) <= zconf.batch
    /\ pc = "build" => Len(batch) < zconf.batch
    /\ pc # "returned" => Len(batch) = Len(built) % zconf.batch

\* a full batch of two was submitted in the middle of a packet_streams
\* loop, and the next probe is about to be written into the empty batch
C28_Witness ==
    /\ pc = "build"
    /\ zconf.batch = 2
    /\ sb.calls = 1
    /\ Len(built) = 2
    /\ batch = <<>>

----------------------------------------------------------------------------
\* Source ports (src/probe_modules/packet.h:191-214)

\* a uint32_t is kept as its two 16-bit halves <<hi, lo>>
U32(hi, lo) == <<hi, lo>>

\* uint32_t addition of a small non-negative int, wrapping at 2^32
Add32(v, k) ==
    LET lo == v[2] + k
    IN <<(v[1] + (lo \div 65536)) % 65536, lo % 65536>>

\* v % n for a uint32_t v and 1 <= n <= 65536
Mod32(v, n) == ((v[1] % n) * (65536 % n) + (v[2] % n)) % n

\* check_dst_port: 0 if port is outside the expected window, non-zero otherwise
check_dst_port(port, num_ports, validation1, cfg) ==
    IF port > cfg.source_port_last \/ port < cfg.source_port_first
    THEN 0
    ELSE LET to_validate == port - cfg.source_port_first
             min == Mod32(validation1, num_ports)
             max == Mod32(Add32(validation1, cfg.packet_streams - 1),
                          num_ports)
         IN IF min <= max
            THEN IF to_validate <= max /\ to_validate >= min THEN 1 ELSE 0
            ELSE IF (to_validate <= max) # (to_validate >= min) THEN 1 ELSE 0

\* get_src_port, returned as a uint16_t
get_src_port(num_ports, probe_num, validation1, cfg) ==
    (cfg.source_port_first +
        Mod32(Add32(validation1, probe_num), num_ports)) % 65536

\* the validation words and port ranges tried
PortWords == {U32(0, 0), U32(0, 1), U32(0, 6), U32(65535, 65534),
              U32(65535, 65535)}
PortFirsts == {0, 32768, 65532}

PortsIdle ==
    /\ port_in = [validation1 |-> U32(0, 0), num_ports |-> 1,
                  cfg |-> [source_port_first |-> 0, source_port_last |-> 0,
                           packet_streams |-> 1]]
    /\ port_out = [op |-> "none"]

PortsInit ==
    /\ \E v \in PortWords, first \in PortFirsts, n \in 1 .. MaxPorts,
          ps \in 1 .. MaxStreams :
          /\ first + n - 1 <= 65535
          /\ port_in = [validation1 |-> v, num_ports |-> n,
                        cfg |-> [source_port_first |-> first,
                                 source_port_last |-> first + n - 1,
                                 packet_streams |-> ps]]
    /\ port_out = [op |-> "none"]

\* the sender picks the source port of probe i
GetSrcPort ==
    \E i \in 0 .. port_in.cfg.packet_streams - 1 :
        LET p == get_src_port(port_in.num_ports, i, port_in.validation1,
                              port_in.cfg)
        IN /\ port_out' = [op |-> "get", probe_num |-> i, port |-> p,
                           ok |-> check_dst_port(p, port_in.num_ports,
                                                 port_in.validation1,
                                                 port_in.cfg)]
           /\ UNCHANGED port_in

\* the receiver checks the destination port q of a response
CheckDstPort ==
    \E q \in Max(0, port_in.cfg.source_port_first - 1) ..
             Min(65535, port_in.cfg.source_port_last + 1) :
        /\ port_out' = [op |-> "check", probe_num |-> 0, port |-> q,
                        ok |-> check_dst_port(q, port_in.num_ports,
                                              port_in.validation1,
                                              port_in.cfg)]
        /\ UNCHANGED port_in

\* (V[1] + i) mod num_ports over the integers, without 32-bit wrap-around
MathMod(v, i, n) == ((v[1] % n) * (65536 % n) + ((v[2] + i) % n)) % n

\* C2: the port of probe i is P_lo + ((V[1] + i) mod num_ports), lies
\* in [P_lo, P_hi] and is accepted by check_dst_port; and check_dst_port accepts
\* a port only if it is get_src_port of some probe number below packet_streams.
C2_SrcPortRoundTrip ==
    /\ port_out.op = "get" =>
          /\ port_out.port = port_in.cfg.source_port_first +
                 MathMod(port_in.validation1, port_out.probe_num,
                         port_in.num_ports)
          /\ port_out.port >= port_in.cfg.source_port_first
          /\ port_out.port <= port_in.cfg.source_port_last
          /\ port_out.ok # 0
    /\ (port_out.op = "check" /\ port_out.ok # 0) =>
          \E i \in 0 .. port_in.cfg.packet_streams - 1 :
              port_out.port = get_src_port(port_in.num_ports, i,
                                           port_in.validation1, port_in.cfg)

\* the same, for the probes of runs with packet_streams <= num_ports whose
\* V[1] + packet_streams - 1 does not wrap
C2_NoWrapFewStreams ==
    (/\ port_in.cfg.packet_streams <= port_in.num_ports
     /\ port_in.validation1[1] < 65535) => C2_SrcPortRoundTrip


----------------------------------------------------------------------------
\* The IPv4 header checksum (src/probe_modules/packet.h:80-109)

SIZEOF_STRUCT_IP == 20

RECURSIVE SumWords(_, _)
\* the sum of the first n 16-bit words of a buffer
SumWords(words, n) ==
    IF n = 0 THEN 0 ELSE SumWords(words, n - 1) + words[n]

\* in_checksum: sum the words (and a trailing odd byte, the low byte of its
\* word on a little-endian host), fold the carries once, complement
in_checksum(ip_pkt, len) ==
    LET nwords == len \div 2
        sum0 == SumWords(ip_pkt, nwords)
        sum1 == IF len % 2 = 1 THEN sum0 + (ip_pkt[nwords + 1] % 256)
                ELSE sum0
        sum2 == (sum1 \div 65536) + (sum1 % 65536)
    IN 65535 - (sum2 % 65536)

\* zmap_ip_checksum: in_checksum over sizeof(struct ip) bytes
zmap_ip_checksum(buf) == in_checksum(buf, SIZEOF_STRUCT_IP)

RECURSIVE EndAroundCarry(_)
\* the one's-complement value of a sum: carries are added back in until
\* none is left
EndAroundCarry(sum) ==
    IF sum < 65536 THEN sum
    ELSE EndAroundCarry((sum \div 65536) + (sum % 65536))

\* the Internet checksum of a buffer of 16-bit words
InternetChecksum(words) ==
    65535 - EndAroundCarry(SumWords(words, Len(words)))

\* values a 16-bit word of the header takes in the model
HeaderWords == {1, 2056, 49320, 60142}

\* IPv4 headers as dns_make_packet leaves them before the checksum is
\* computed (module_dns.c:886): ihl 5, ttl 255, UDP, ip_sum 0
IpHeaders ==
    {<<17664, 70, id, 0, 65297, 0, s1, s2, d1, d2>> :
        id \in HeaderWords, s1 \in HeaderWords, s2 \in HeaderWords,
        d1 \in HeaderWords, d2 \in HeaderWords}

CksumIdle ==
    /\ ck_in = <<>>
    /\ ck_out = [done |-> FALSE, ip_sum |-> 0]

CksumInit ==
    /\ ck_in \in IpHeaders
    /\ ck_out = [done |-> FALSE, ip_sum |-> 0]

\* module_dns.c:886-887: ip_sum = 0; ip_sum = zmap_ip_checksum(ip_header)
IpChecksum ==
    /\ ~ck_out.done
    /\ ck_out' = [done |-> TRUE, ip_sum |-> zmap_ip_checksum(ck_in)]
    /\ UNCHANGED ck_in

\* C27: for every 20-byte header with a zero checksum field the value
\* zmap_ip_checksum returns is the Internet checksum of the header, and the
\* header with that value in its checksum field sums to 0xFFFF.
C27_IpChecksumCorrect ==
    ck_out.done =>
        /\ ck_out.ip_sum = InternetChecksum(ck_in)
        /\ EndAroundCarry(SumWords([ck_in EXCEPT ![6] = ck_out.ip_sum],
                                   10)) = 65535

----------------------------------------------------------------------------
\* Bytes and text (characters are their ASCII codes)

DOT == 46
ZERO_CHAR == 48

\* htons / ntohs on a little-endian host
htons(x) == (x % 256) * 256 + (x \div 256)

\* the decimal text of n in 0 .. 255, as inet_ntoa prints an octet
Dec(n) ==
    IF n < 10 THEN <<ZERO_CHAR + n>>
    ELSE IF n < 100 THEN <<ZERO_CHAR + (n \div 10), ZERO_CHAR + (n % 10)>>
    ELSE <<ZERO_CHAR + (n \div 100), ZERO_CHAR + ((n \div 10) % 10),
           ZERO_CHAR + (n % 10)>>

inet_ntoa(ip) ==
    Dec(ip[1]) \o <<DOT>> \o Dec(ip[2]) \o <<DOT>> \o Dec(ip[3]) \o <<DOT>>
        \o Dec(ip[4])

\* atoi on a string of digits
RECURSIVE atoi(_)
atoi(str) ==
    IF str = <<>> THEN 0
    ELSE atoi(SubSeq(str, 1, Len(str) - 1)) * 10 + (str[Len(str)] - ZERO_CHAR)

\* the tokens strsep(&temp, ".") returns, in order
RECURSIVE strsep_all(_, _)
strsep_all(str, tok) ==
    IF str = <<>> THEN <<tok>>
    ELSE IF Head(str) = DOT THEN <<tok>> \o strsep_all(Tail(str), <<>>)
    ELSE strsep_all(Tail(str), Append(tok, Head(str)))

\* sprintf("%03d", n) for 0 <= n <= 999
sprintf_03d(n) ==
    <<ZERO_CHAR + (n \div 100), ZERO_CHAR + ((n \div 10) % 10),
      ZERO_CHAR + (n % 10)>>

\* make_ip_strinqname (packet.c:420-436): per octet a length byte 3 and the
\* octet as three digits; the first 16 bytes of the returned buffer
RECURSIVE ip_labels(_)
ip_labels(toks) ==
    IF toks = <<>> THEN <<>>
    ELSE <<3>> \o sprintf_03d(atoi(Head(toks))) \o ip_labels(Tail(toks))

make_ip_strinqname(ip) == ip_labels(strsep_all(inet_ntoa(ip), <<>>))

\* domain_to_qname (module_dns.c:135-158): the name in wire format, with its
\* root byte; its length is strlen(domain) + 2
domain_to_qname(domain) ==
    LET len == Len(domain) + 2
        q0 == <<DOT>> \o domain \o <<0>>
        dots(i) == {j \in i + 1 .. len - 1 : q0[j] = DOT}
        stop(i) == IF dots(i) = {} THEN len
                   ELSE CHOOSE j \in dots(i) : \A k \in dots(i) : j <= k
    IN [i \in 1 .. len |-> IF q0[i] = DOT THEN stop(i) - i - 1 ELSE q0[i]]

\* the bytes of a C string starting off bytes into s, up to its NUL
CStrFrom(s, off) ==
    LET rest == SubSeq(s, off + 1, Len(s))
        nul == {k \in 1 .. Len(rest) : rest[k] = 0}
    IN IF nul = {} THEN rest
       ELSE SubSeq(rest, 1, (CHOOSE k \in nul : \A m \in nul : k <= m) - 1)

\* strcmp(a + off, b + off) == 0
strcmp_eq(a, b, off) == CStrFrom(a, off) = CStrFrom(b, off)

----------------------------------------------------------------------------
\* The DNS probe module (src/probe_modules/module_dns.c)

PACKET_VALID == 1
PACKET_INVALID == 0
SIZEOF_DNS_HEADER == 12
SIZEOF_DNS_QUESTION_TAIL == 4
SIZEOF_ETHER_HEADER == 14
SIZEOF_IP == 20
SIZEOF_UDPHDR == 8
DNS_PAYLOAD_LEN_LIMIT == 512
DNS_QTYPE_A == 1
DNS_QTYPE_TXT == 16
DNS_QTYPE_AAAA == 28
DNS_QR_ANSWER == 1
DNS_RCODE_NOERR == 0

\* "www.google.com" (module_dns.c:77)
default_domain ==
    <<119, 119, 119, DOT, 103, 111, 111, 103, 108, 101, DOT, 99, 111, 109>>

\* qtype_str_to_code (module_dns.c:126-133), for the types used here
qtype_str_to_code(str) ==
    CASE str = "A" -> DNS_QTYPE_A
      [] str = "TXT" -> DNS_QTYPE_TXT
      [] str = "AAAA" -> DNS_QTYPE_AAAA
      [] OTHER -> 0

\* build_global_dns_packets (module_dns.c:160-206) for one question
BuildQuestion(q) ==
    LET qname == domain_to_qname(q.domain)
    IN [qname |-> qname,
        qname_len |-> Len(qname),
        qtype |-> qtype_str_to_code(q.qtype),
        dns_packet_len |-> SIZEOF_DNS_HEADER + Len(qname) +
                           SIZEOF_DNS_QUESTION_TAIL,
        \* dns_packets[i]: header fields, qname, question tail
        packet |-> [rd |-> 1, qdcount |-> htons(1), qname |-> qname,
                    tail |-> [qtype |-> htons(qtype_str_to_code(q.qtype)),
                              qclass |-> htons(1)]]]

\* dns_global_initialize (module_dns.c:582-704): "fatal" or the globals
dns_global_initialize(conf) ==
    LET args == IF conf.probe_args = <<>>
                THEN <<[qtype |-> "A", domain |-> default_domain]>>
                ELSE conf.probe_args
    IN IF ~conf.has_probe_args
       THEN [phase |-> "fatal", questions |-> <<>>]
       ELSE IF \E i \in 1 .. Len(conf.probe_args) :
                  qtype_str_to_code(conf.probe_args[i].qtype) = 0
       THEN [phase |-> "fatal", questions |-> <<>>]
       ELSE IF conf.packet_streams % Len(args) # 0
       THEN [phase |-> "fatal", questions |-> <<>>]
       ELSE IF \E i \in 1 .. Len(args) :
                  BuildQuestion(args[i]).dns_packet_len > DNS_PAYLOAD_LEN_LIMIT
       THEN [phase |-> "fatal", questions |-> <<>>]
       ELSE [phase |-> "ready",
             questions |-> [i \in 1 .. Len(args) |-> BuildQuestion(args[i])]]

num_questions == Len(dns_mod.questions)

\* num_ports = conf->source_port_last - conf->source_port_first + 1
dns_num_ports == dns_conf.source_port_last - dns_conf.source_port_first + 1

\* an index that does not depend on the probe number
dns_question_index_first(probe_num) == 1

\* get_dns_question_index_by_probe_num (module_dns.c:779-783), 1-based here
get_dns_question_index_by_probe_num(probe_num) ==
    (probe_num % num_questions) + 1

\* memcpy(buf + 54, ipqname, 16) on the bytes that follow the DNS header
EmbedIp(body, ipqname) ==
    [k \in 1 .. Max(Len(body), 16) |->
        IF k <= 16 THEN ipqname[k] ELSE body[k]]

\* the four bytes of a question tail, as they lie in the packet
TailBytes(tail) ==
    <<tail.qtype % 256, tail.qtype \div 256,
      tail.qclass % 256, tail.qclass \div 256>>

\* dns_make_packet (module_dns.c:827-914)
dns_make_packet(dst_ip, dport, validation, probe_num) ==
    LET q == dns_mod.questions[get_dns_question_index_by_probe_num(probe_num)]
        body == q.packet.qname \o TailBytes(q.packet.tail)
    IN [buf_len |-> SIZEOF_ETHER_HEADER + SIZEOF_IP + SIZEOF_UDPHDR +
                    q.dns_packet_len,
        udp_len |-> SIZEOF_UDPHDR + q.dns_packet_len,
        ip_dst |-> dst_ip,
        sport |-> get_src_port(dns_num_ports, probe_num, validation.v1,
                               dns_conf),
        dport |-> dport,
        id |-> validation.v2[2],
        body |-> IF dns_conf.dnsippadding
                 THEN EmbedIp(body, make_ip_strinqname(dst_ip))
                 ELSE body]


\* get_udp_header (packet.h:260-268): is the UDP header inside len bytes
get_udp_header(len) == ~(SIZEOF_IP + SIZEOF_UDPHDR > len)

\* check_src_port: is the response's source port one of the target ports
check_src_port(port, ports) == port \in ports

\* udp_do_validate_packet, for a UDP response
udp_do_validate_packet(r, validation) ==
    IF ~get_udp_header(r.len) THEN PACKET_INVALID
    ELSE IF check_dst_port(r.dport, dns_num_ports, validation.v1,
                           dns_conf) = 0
    THEN PACKET_INVALID
    ELSE IF ~check_src_port(r.sport, dns_conf.target_ports)
    THEN PACKET_INVALID
    ELSE PACKET_VALID

\* a validation that also compares the transaction ID
dns_validate_packet_with_id(r, validation) ==
    IF udp_do_validate_packet(r, validation) = PACKET_INVALID
    THEN PACKET_INVALID
    ELSE IF ~get_udp_header(r.len) THEN PACKET_INVALID
    ELSE IF ~\E i \in 1 .. num_questions :
                r.udp_len >= dns_mod.questions[i].dns_packet_len
    THEN PACKET_INVALID
    ELSE IF r.len < r.udp_len THEN PACKET_INVALID
    ELSE IF r.id # validation.v2[2] THEN PACKET_INVALID
    ELSE PACKET_VALID

\* dns_validate_packet (module_dns.c:930-958), for a UDP response
dns_validate_packet(r, validation) ==
    IF udp_do_validate_packet(r, validation) = PACKET_INVALID
    THEN PACKET_INVALID
    ELSE IF ~get_udp_header(r.len) THEN PACKET_INVALID
    ELSE IF ~\E i \in 1 .. num_questions :
                r.udp_len >= dns_mod.questions[i].dns_packet_len
    THEN PACKET_INVALID
    ELSE IF r.len < r.udp_len THEN PACKET_INVALID
    ELSE PACKET_VALID

\* module_dns.c:999-1029: does question i make the response valid; the
\* question tail compared is the one of dns_packets[i]
QuestionMatches(r, validation, i) ==
    LET q == dns_mod.questions[i]
        tail_p == q.packet.tail
        offset == IF dns_conf.dnsippadding THEN 16 ELSE 0
    IN /\ ~(r.udp_len < q.dns_packet_len)
       /\ r.id = validation.v2[2]
       /\ strcmp_eq(q.qname, r.qname, offset)
       /\ tail_p.qtype = htons(q.qtype)
       /\ tail_p.qclass = htons(1)

\* dns_process_packet (module_dns.c:987-1127): the success fields
dns_process_packet(r, validation) ==
    LET is_valid == \E i \in 1 .. num_questions :
                        QuestionMatches(r, validation, i)
    IN [success |-> is_valid,
        app_success |-> is_valid /\ r.qr = DNS_QR_ANSWER /\
                        r.rcode = DNS_RCODE_NOERR]

\* "255.255.255.255", the placeholder of the dynamic embedding
Placeholder ==
    <<50, 53, 53, DOT, 50, 53, 53, DOT, 50, 53, 53, DOT, 50, 53, 53>>

\* "a.bc" and "bc"
DomainA == <<97, DOT, 98, 99>>
DomainB == <<98, 99>>

\* the probe arguments tried
DnsProbeArgs ==
    {<<>>,
     <<[qtype |-> "A", domain |-> DomainA]>>,
     <<[qtype |-> "BAD", domain |-> DomainA]>>,
     <<[qtype |-> "A", domain |-> DomainA],
       [qtype |-> "AAAA", domain |-> DomainB]>>,
     <<[qtype |-> "A", domain |-> Placeholder \o <<DOT>> \o DomainA]>>,
     <<[qtype |-> "TXT", domain |-> Placeholder \o <<DOT>> \o DomainB],
       [qtype |-> "A", domain |-> Placeholder \o <<DOT>> \o DomainA]>>}

\* with -D every configured domain starts with the placeholder
PlaceholderArgs(args) ==
    \A i \in 1 .. Len(args) :
        /\ Len(args[i].domain) > 16
        /\ SubSeq(args[i].domain, 1, 15) = Placeholder

DnsTargets == {<<192, 0, 2, 1>>, <<192, 168, 100, 200>>, <<8, 8, 4, 4>>}
DnsValidations == {[v1 |-> U32(0, 0), v2 |-> U32(0, 4660)],
                   [v1 |-> U32(0, 5), v2 |-> U32(3, 65535)]}

NoProbe == [built |-> FALSE]
NoResp == [phase |-> "none"]

DnsIdle ==
    /\ dns_conf = [has_probe_args |-> FALSE, probe_args |-> <<>>,
                   dnsippadding |-> FALSE, packet_streams |-> 1,
                   source_port_first |-> 0, source_port_last |-> 0,
                   target_ports |-> {}]
    /\ dns_mod = [phase |-> "config", questions |-> <<>>]
    /\ dns_probe = NoProbe
    /\ dns_resp = NoResp

DnsInit ==
    /\ \E has \in BOOLEAN, args \in DnsProbeArgs, pad \in BOOLEAN,
          ps \in 1 .. MaxStreams, n \in 1 .. MaxDnsPorts :
          /\ ~has => args = <<>>
          /\ pad => (args # <<>> /\ PlaceholderArgs(args))
          /\ dns_conf = [has_probe_args |-> has, probe_args |-> args,
                         dnsippadding |-> pad, packet_streams |-> ps,
                         source_port_first |-> 32768,
                         source_port_last |-> 32768 + n - 1,
                         target_ports |-> {53}]
    /\ dns_mod = [phase |-> "config", questions |-> <<>>]
    /\ dns_probe = NoProbe
    /\ dns_resp = NoResp

\* -D given with any of the probe arguments: dns_global_initialize does not
\* look for the placeholder
DnsPadInit ==
    /\ \E args \in DnsProbeArgs \ {<<>>}, ps \in 1 .. MaxStreams,
          n \in 1 .. MaxDnsPorts :
          dns_conf = [has_probe_args |-> TRUE, probe_args |-> args,
                      dnsippadding |-> TRUE, packet_streams |-> ps,
                      source_port_first |-> 32768,
                      source_port_last |-> 32768 + n - 1,
                      target_ports |-> {53}]
    /\ dns_mod = [phase |-> "config", questions |-> <<>>]
    /\ dns_probe = NoProbe
    /\ dns_resp = NoResp

\* send_init calls the module's global_initialize
DnsGlobalInitialize ==
    /\ dns_mod.phase = "config"
    /\ dns_mod' = dns_global_initialize(dns_conf)
    /\ UNCHANGED <<dns_conf, dns_probe, dns_resp>>

\* a sender builds the probe probe_num for a target
DnsMakePacket ==
    /\ dns_mod.phase = "ready"
    /\ dns_resp.phase = "none"
    /\ \E dst \in DnsTargets, v \in DnsValidations,
          i \in 0 .. dns_conf.packet_streams - 1 :
          dns_probe' = [built |-> TRUE, dst_ip |-> dst, validation |-> v,
                        probe_num |-> i,
                        pkt |-> dns_make_packet(dst, 53, v, i)]
    /\ dns_resp' = NoResp
    /\ UNCHANGED <<dns_conf, dns_mod>>

\* the name echoed from the last probe, and a name that differs from it in
\* its last label
EchoedName == SubSeq(dns_probe.pkt.body, 1, Len(dns_probe.pkt.body) - 4)
OtherName ==
    [k \in 1 .. Len(EchoedName) |->
        IF k = Len(EchoedName) - 1 THEN 122 ELSE EchoedName[k]]

\* the receiver captures a UDP response to the last probe and validates it
DnsReceive ==
    /\ dns_probe.built
    /\ dns_resp.phase = "none"
    /\ \E id \in {dns_probe.pkt.id, (dns_probe.pkt.id + 1) % 65536},
          qname \in {EchoedName, OtherName},
          qtype \in {htons(DNS_QTYPE_A), htons(DNS_QTYPE_AAAA)},
          qclass \in {htons(1), htons(3)},
          short \in {0, 1, SIZEOF_UDPHDR + 1},
          cut \in {0, 1},
          dport \in {dns_probe.pkt.sport, dns_probe.pkt.sport + 1},
          qr \in {0, 1} :
          LET r == [len |-> SIZEOF_IP + dns_probe.pkt.udp_len - short - cut,
                    udp_len |-> dns_probe.pkt.udp_len - short,
                    sport |-> dns_probe.pkt.dport, dport |-> dport,
                    id |-> id, qname |-> qname, qtype |-> qtype,
                    qclass |-> qclass, qr |-> qr, rcode |-> DNS_RCODE_NOERR]
          IN dns_resp' = [phase |-> "validated", r |-> r,
                          verdict |-> dns_validate_packet(
                                          r, dns_probe.validation)]
    /\ UNCHANGED <<dns_conf, dns_mod, dns_probe>>

\* the receiver hands a validated response to process_packet
DnsProcess ==
    /\ dns_resp.phase = "validated"
    /\ dns_resp.verdict = PACKET_VALID
    /\ LET f == dns_process_packet(dns_resp.r, dns_probe.validation)
       IN dns_resp' = [dns_resp EXCEPT !.phase = "processed"] @@
                      [success |-> f.success, app_success |-> f.app_success]
    /\ UNCHANGED <<dns_conf, dns_mod, dns_probe>>

\* the response is dropped or recorded; the receiver takes the next one
DnsNextResponse ==
    /\ dns_resp.phase \in {"validated", "processed"}
    /\ dns_resp' = NoResp
    /\ UNCHANGED <<dns_conf, dns_mod, dns_probe>>

----------------------------------------------------------------------------
\* Claims about the DNS module, checked under SpecDns

\* the transaction ID the validation of the response in hand calls for
ExpectedId == dns_probe.validation.v2[2]

\* C3 as stated: dns_validate_packet returns PACKET_INVALID for every UDP
\* response whose transaction ID differs from V[2] & 0xFFFF.
C3_ValidateRejectsWrongId ==
    (dns_resp.phase # "none" /\ dns_resp.r.id # ExpectedId) =>
        dns_resp.verdict = PACKET_INVALID

\* C3 as amended: dns_validate_packet does not examine the transaction ID: a
\* UDP response that differs from a valid one only in the transaction-ID
\* field is PACKET_VALID too; dns_process_packet then records every response
\* whose transaction ID differs from V[2] & 0xFFFF with success = false.
C3_WrongIdValidButNoSuccess ==
    dns_resp.phase # "none" =>
        /\ dns_validate_packet([dns_resp.r EXCEPT !.id = ExpectedId],
                               dns_probe.validation) = PACKET_VALID
               => dns_resp.verdict = PACKET_VALID
        /\ (dns_resp.phase = "processed" /\ dns_resp.r.id # ExpectedId)
               => ~dns_resp.success

\* a response with a wrong transaction ID passed validation and was recorded
C3_Witness ==
    /\ dns_resp.phase = "processed"
    /\ dns_resp.r.id # ExpectedId
    /\ dns_resp.verdict = PACKET_VALID
    /\ ~dns_resp.success

\* C4: success is recorded only if the response's transaction ID equals
\* V[2] & 0xFFFF and the question echoed in the response itself (qname, qtype,
\* qclass) equals a configured question.
C4_SuccessOnlyIfQuestionEchoed ==
    (dns_resp.phase = "processed" /\ dns_resp.success) =>
        /\ dns_resp.r.id = ExpectedId
        /\ \E i \in 1 .. num_questions :
              /\ dns_resp.r.qname = dns_mod.questions[i].qname
              /\ dns_resp.r.qtype = htons(dns_mod.questions[i].qtype)
              /\ dns_resp.r.qclass = htons(1)

\* the domain that follows the placeholder in the question of the last probe
ProbeDomainRest ==
    LET d == dns_conf.probe_args[
                 get_dns_question_index_by_probe_num(dns_probe.probe_num)
             ].domain
    IN SubSeq(d, 17, Len(d))

\* C5: with -D and a domain 255.255.255.255.<DOMAIN>, the query built for
\* target a.b.c.d carries the query name a.b.c.d.<DOMAIN>.
C5_QueryNameEmbedsTargetIp ==
    (dns_probe.built /\ dns_conf.dnsippadding) =>
        SubSeq(dns_probe.pkt.body, 1, Len(dns_probe.pkt.body) - 4) =
            domain_to_qname(inet_ntoa(dns_probe.dst_ip) \o <<DOT>> \o
                            ProbeDomainRest)

\* the same for the targets whose four octets all have three digits
C5_ThreeDigitOctets ==
    (dns_probe.built /\ dns_conf.dnsippadding /\
     \A k \in 1 .. 4 : dns_probe.dst_ip[k] >= 100) =>
        SubSeq(dns_probe.pkt.body, 1, Len(dns_probe.pkt.body) - 4) =
            domain_to_qname(inet_ntoa(dns_probe.dst_ip) \o <<DOT>> \o
                            ProbeDomainRest)

\* C18: dns_validate_packet accepts a UDP response only if its UDP length is
\* at least the UDP header plus the DNS query length of some configured
\* question, and only if the captured length covers the declared UDP length.
C18_ShortResponsesRejected ==
    (dns_resp.phase # "none" /\ dns_resp.verdict = PACKET_VALID) =>
        /\ \E i \in 1 .. num_questions :
               dns_resp.r.udp_len >=
                   SIZEOF_UDPHDR + dns_mod.questions[i].dns_packet_len
        /\ dns_resp.r.len >= SIZEOF_IP + dns_resp.r.udp_len

\* the questions configured, the default one if the arguments name none
ConfiguredQuestions ==
    IF dns_conf.probe_args = <<>>
    THEN <<[qtype |-> "A", domain |-> default_domain]>>
    ELSE dns_conf.probe_args

\* the bytes after the DNS header of a query for the k-th configured question
QuestionBytes(k) ==
    LET q == ConfiguredQuestions[k]
    IN domain_to_qname(q.domain) \o
       TailBytes([qtype |-> htons(qtype_str_to_code(q.qtype)),
                  qclass |-> htons(1)])

\* does a probe carry the k-th configured question (with -D, after the
\* sixteen bytes of the embedded address)
Carries(pkt, k) ==
    LET from == IF dns_conf.dnsippadding THEN 17 ELSE 1
    IN /\ Len(pkt.body) = Len(QuestionBytes(k))
       /\ SubSeq(pkt.body, from, Len(pkt.body)) =
              SubSeq(QuestionBytes(k), from, Len(QuestionBytes(k)))

\* C19: initialization is fatal unless packet_streams is a multiple of the
\* number Q of questions; probe i carries question i mod Q, so that every
\* target gets each question packet_streams / Q times; the source port is
\* P_lo + (V[1] + i) mod num_ports, from the probe number itself.
C19_QuestionsRoundRobin ==
    LET Q == Len(ConfiguredQuestions)
        ps == dns_conf.packet_streams
    IN /\ (dns_mod.phase # "config" /\ ps % Q # 0) => dns_mod.phase = "fatal"
       /\ dns_mod.phase = "ready" =>
              /\ num_questions = Q
              /\ ps % Q = 0
       /\ (dns_probe.built /\ dns_resp.phase = "none") =>
              /\ Carries(dns_probe.pkt, (dns_probe.probe_num % Q) + 1)
              /\ dns_probe.pkt.sport =
                     dns_conf.source_port_first +
                     MathMod(dns_probe.validation.v1, dns_probe.probe_num,
                             dns_num_ports)
              /\ \A k \in 1 .. Q :
                     Cardinality(
                         {i \in 0 .. ps - 1 :
                              Carries(dns_make_packet(dns_probe.dst_ip, 53,
                                          dns_probe.validation, i), k)})
                         = ps \div Q

\* two questions, two probes per target: probe 1 carries the second question
C19_Witness ==
    /\ dns_probe.built
    /\ Len(dns_conf.probe_args) = 2
    /\ dns_conf.packet_streams = 2
    /\ dns_probe.probe_num = 1
    /\ Carries(dns_probe.pkt, 2)
    /\ ~Carries(dns_probe.pkt, 1)

\* C20: initialized with no probe arguments, dns_global_initialize succeeds
\* and configures one question, A for www.google.com with recursion desired.
C20_NoArgsDefaultQuestion ==
    (dns_mod.phase # "config" /\ ~dns_conf.has_probe_args) =>
        /\ dns_mod.phase = "ready"
        /\ num_questions = 1
        /\ dns_mod.questions[1].qname = domain_to_qname(default_domain)
        /\ dns_mod.questions[1].qtype = DNS_QTYPE_A
        /\ dns_mod.questions[1].packet.rd = 1

\* the bytes after the DNS header of the last probe as they are without -D
PlainBody ==
    LET q == dns_mod.questions[
                 get_dns_question_index_by_probe_num(dns_probe.probe_num)]
    IN q.packet.qname \o TailBytes(q.packet.tail)

\* C30: with -D the probe differs from the one built without -D in the
\* first 16 bytes of the query name at most: its other bytes are the same,
\* no byte at or beyond the packet's length is written, and a packet
\* shorter than 70 bytes is left as it is.
C30_EmbeddingChangesOnlyPlaceholder ==
    (dns_probe.built /\ dns_conf.dnsippadding) =>
        /\ Len(dns_probe.pkt.body) = Len(PlainBody)
        /\ \A k \in 17 .. Len(PlainBody) :
               dns_probe.pkt.body[k] = PlainBody[k]
        /\ dns_probe.pkt.buf_len < 54 + 16 =>
               dns_probe.pkt.body = PlainBody

----------------------------------------------------------------------------
\* The record sections of a response (module_dns.c:385-574, 960-985 and
\* 1053-1124)

SIZEOF_DNS_ANSWER_TAIL == 10

\* sizeof(udp_hdr), a pointer, on 32-bit and 64-bit builds
PointerSizes == {4, 8}

\* what the parser finds at a record: the bytes get_name consumes for its
\* name (0 when get_name returns NULL) and the rdlength field after it
WireRecords == {[name |-> 0, rdlength |-> 0], [name |-> 1, rdlength |-> 0],
                [name |-> 2, rdlength |-> 0], [name |-> 1, rdlength |-> 4]}

RECURSIVE RecordSeqs(_)
\* the sequences of at most n records
RecordSeqs(n) ==
    IF n = 0 THEN {<<>>}
    ELSE LET shorter == RecordSeqs(n - 1)
         IN shorter \cup
            {Append(q, r) : q \in {t \in shorter : Len(t) = n - 1},
                            r \in WireRecords}

\* the record the parser looks at next; past the records of the response
\* there are only bytes that are no name
RecordAt(recs, k) ==
    IF k <= Len(recs) THEN recs[k] ELSE [name |-> 0, rdlength |-> 0]

\* process_response_question (module_dns.c:383-425)
process_response_question(st, recs) ==
    LET r == RecordAt(recs, st.next)
    IN IF r.name = 0 THEN [st EXCEPT !.err = TRUE]
       ELSE IF r.name + SIZEOF_DNS_QUESTION_TAIL > st.data_len
       THEN [st EXCEPT !.err = TRUE]
       ELSE [st EXCEPT
               !.list = Append(@, st.next),
               !.next = @ + 1,
               !.data_len = @ - r.name - SIZEOF_DNS_QUESTION_TAIL]

\* process_response_answer (module_dns.c:427-574)
process_response_answer(st, recs) ==
    LET r == RecordAt(recs, st.next)
    IN IF r.name = 0 THEN [st EXCEPT !.err = TRUE]
       ELSE IF r.name + SIZEOF_DNS_ANSWER_TAIL > st.data_len
       THEN [st EXCEPT !.err = TRUE]
       ELSE IF r.rdlength + r.name + SIZEOF_DNS_ANSWER_TAIL > st.data_len
       THEN [st EXCEPT !.err = TRUE]
       ELSE [st EXCEPT
               !.list = Append(@, st.next),
               !.next = @ + 1,
               !.data_len = @ - r.name - SIZEOF_DNS_ANSWER_TAIL
                              - r.rdlength]

\* i < ntohs(count) && !err (module_dns.c:1083, 1092, 1101, 1110)
LoopGoesOnWhileNoErr(i, count, err) == i < count /\ ~err

RECURSIVE SectionLoop(_, _, _, _, _)
\* one of the four for loops of dns_process_packet
SectionLoop(st, recs, i, count, question) ==
    IF ~LoopGoesOnWhileNoErr(i, count, st.err) THEN st
    ELSE SectionLoop(IF question
                     THEN process_response_question(st, recs)
                     ELSE process_response_answer(st, recs),
                     recs, i + 1, count, question)

\* trailing bytes that are no error
IgnoreTrailingBytes(err, data_len) == err

\* if (data_len != 0) err = true (module_dns.c:1117-1119)
TrailingBytesErr(err, data_len) == err \/ data_len # 0

\* dns_add_null_fs (module_dns.c:960-985): the DNS fields of a response that
\* is no success
dns_add_null_fs ==
    [dns_questions |-> <<>>, dns_answers |-> <<>>,
     dns_authorities |-> <<>>, dns_additionals |-> <<>>,
     dns_parse_err |-> 1, dns_unconsumed_bytes |-> 0]

\* module_dns.c:1053-1124: the DNS record fields dns_process_packet emits
\* for a response r; a list holds the positions of the records parsed
DnsRecordFields(r) ==
    IF ~r.is_valid THEN dns_add_null_fs
    ELSE
    LET data_len == (r.udp_len - r.sizeof_udp_hdr - SIZEOF_DNS_HEADER)
                        % 65536
        s0 == [err |-> FALSE, data_len |-> data_len, next |-> 1,
               list |-> <<>>]
        s1 == SectionLoop(s0, r.recs, 0, r.qdcount, TRUE)
        s2 == SectionLoop([s1 EXCEPT !.list = <<>>], r.recs, 0, r.ancount,
                          FALSE)
        s3 == SectionLoop([s2 EXCEPT !.list = <<>>], r.recs, 0, r.nscount,
                          FALSE)
        s4 == SectionLoop([s3 EXCEPT !.list = <<>>], r.recs, 0, r.arcount,
                          FALSE)
        err == TrailingBytesErr(s4.err, s4.data_len)
    IN [dns_questions |-> s1.list, dns_answers |-> s2.list,
        dns_authorities |-> s3.list, dns_additionals |-> s4.list,
        dns_parse_err |-> IF err THEN 1 ELSE 0,
        dns_unconsumed_bytes |-> s4.data_len]

\* the UDP lengths tried: too short for a DNS header, and 0 to 27 bytes of
\* records
ParseUdpLens == {16} \cup {20 + k : k \in {0, 5, 10, 11, 16, 21, 27}}

NoFields == [done |-> FALSE]

ParseIdle ==
    /\ pr_in = [is_valid |-> FALSE, udp_len |-> 0, sizeof_udp_hdr |-> 8,
                qdcount |-> 0, ancount |-> 0, nscount |-> 0, arcount |-> 0,
                recs |-> <<>>]
    /\ pr_out = NoFields

ParseInit ==
    /\ \E ok \in BOOLEAN, ul \in ParseUdpLens, ps \in PointerSizes,
          qd \in 0 .. 1, an \in 0 .. MaxAnswers, ns \in 0 .. 1,
          ar \in 0 .. 1, recs \in RecordSeqs(MaxRecords) :
          pr_in = [is_valid |-> ok, udp_len |-> ul, sizeof_udp_hdr |-> ps,
                   qdcount |-> qd, ancount |-> an, nscount |-> ns,
                   arcount |-> ar, recs |-> recs]
    /\ pr_out = NoFields

\* dns_process_packet emits the DNS fields of the response
DnsParseRecords ==
    /\ ~pr_out.done
    /\ pr_out' = [done |-> TRUE, fs |-> DnsRecordFields(pr_in)]
    /\ UNCHANGED pr_in

\* the records dns_process_packet parsed, in the order of the lists
ParsedRecords ==
    pr_out.fs.dns_questions \o pr_out.fs.dns_answers \o
    pr_out.fs.dns_authorities \o pr_out.fs.dns_additionals

RecordCount ==
    pr_in.qdcount + pr_in.ancount + pr_in.nscount + pr_in.arcount

\* the bytes record k takes, by the section its position falls in
RecordSize(k) ==
    LET r == RecordAt(pr_in.recs, k)
    IN IF k <= pr_in.qdcount THEN r.name + SIZEOF_DNS_QUESTION_TAIL
       ELSE r.name + SIZEOF_DNS_ANSWER_TAIL + r.rdlength

RECURSIVE BytesBefore(_)
\* the bytes of the records before record k
BytesBefore(k) == IF k <= 1 THEN 0 ELSE BytesBefore(k - 1) + RecordSize(k - 1)

\* record k has a name and lies inside the data
RecordParses(k) ==
    /\ RecordAt(pr_in.recs, k).name # 0
    /\ BytesBefore(k) + RecordSize(k) <=
           (pr_in.udp_len - pr_in.sizeof_udp_hdr - SIZEOF_DNS_HEADER)
               % 65536

\* C26: for a success, dns_parse_err is 0 exactly when all qdcount +
\* ancount + nscount + arcount records were parsed and
\* dns_unconsumed_bytes is 0; the lists hold, in order, the records before
\* the first one that does not parse and none after it, and dns_parse_err
\* is 1 when there is such a record. For a response that is no success
\* dns_parse_err is 1 and the four lists are empty.
C26_ParseErrIffIncomplete ==
    pr_out.done =>
        IF pr_in.is_valid
        THEN /\ (pr_out.fs.dns_parse_err = 0) <=>
                    /\ Len(ParsedRecords) = RecordCount
                    /\ pr_out.fs.dns_unconsumed_bytes = 0
             /\ pr_out.fs.dns_parse_err \in {0, 1}
             /\ ParsedRecords = [k \in 1 .. Len(ParsedRecords) |-> k]
             /\ \A k \in 1 .. Len(ParsedRecords) : RecordParses(k)
             /\ Len(pr_out.fs.dns_questions) <= pr_in.qdcount
             /\ Len(pr_out.fs.dns_answers) <= pr_in.ancount
             /\ Len(pr_out.fs.dns_authorities) <= pr_in.nscount
             /\ Len(pr_out.fs.dns_additionals) <= pr_in.arcount
             /\ Len(ParsedRecords) < RecordCount =>
                    /\ ~RecordParses(Len(ParsedRecords) + 1)
                    /\ pr_out.fs.dns_parse_err = 1
        ELSE /\ pr_out.fs.dns_parse_err = 1
             /\ ParsedRecords = <<>>

\* a success whose question and first answer were parsed and whose second
\* answer was not: the two are in their lists and dns_parse_err is 1
C26_Witness ==
    /\ pr_out.done
    /\ pr_in.is_valid
    /\ pr_in.qdcount = 1
    /\ pr_in.ancount = 2
    /\ pr_out.fs.dns_questions = <<1>>
    /\ pr_out.fs.dns_answers = <<2>>
    /\ pr_out.fs.dns_additionals = <<>>
    /\ pr_out.fs.dns_parse_err = 1

----------------------------------------------------------------------------
\* get_name_helper and get_name (src/probe_modules/module_dns.c:208-382)

MAX_LABEL_RECURSION == 10
MAX_NAME_LENGTH == 512
POINTER_BYTE == 192

\* the bytes a payload of SpecName is made of: an end of name, two label
\* lengths (also pointer offsets and label text) and a pointer byte
NameBytes == {0, 1, 2, POINTER_BYTE}

RECURSIVE NamePayloads(_)
\* the payloads of at most n bytes
NamePayloads(n) ==
    IF n = 0 THEN {<<>>}
    ELSE LET shorter == NamePayloads(n - 1)
         IN shorter \cup
            {Append(q, b) : q \in {r \in shorter : Len(r) = n - 1},
                            b \in NameBytes}

\* the name buffer get_name passes, and two short ones
NameLens == {1, 2, MAX_NAME_LENGTH - 1}

\* a test of the recursion level that never refuses
RecursionNeverExceeded(recursion_level) == FALSE

\* recursion_level > MAX_LABEL_RECURSION (module_dns.c:223)
RecursionExceeded(recursion_level) == recursion_level > MAX_LABEL_RECURSION

\* byte > name_len (module_dns.c:333): the label does not fit
LabelTooLong(byte, name_len) == byte > name_len

\* offset = ((byte & 0x03) << 8) | (uint8_t)data[1] (module_dns.c:243-244)
PointerOffset(byte, next) == (byte % 4) * 256 + next

GnOff ==
    [pc |-> "idle", recursion_level |-> 0, pos |-> 0, data_len |-> 0,
     name |-> <<>>, name_len |-> 0, bytes_consumed |-> 0, frames |-> <<>>,
     ret |-> 0, failed |-> "none"]

NameIdle ==
    /\ gn_in = [payload |-> <<>>, start |-> 0, data_len |-> 0,
                name_len |-> 0]
    /\ gn = GnOff

\* a call get_name_helper(payload + start, data_len, payload, payload_len,
\* name, name_len, 0) with the data inside the payload
NameInit ==
    /\ \E q \in NamePayloads(MaxPayload), nl \in NameLens :
       \E st \in 0 .. Len(q) :
       \E dl \in 0 .. Len(q) - st :
          gn_in = [payload |-> q, start |-> st, data_len |-> dl,
                   name_len |-> nl]
    /\ gn = [GnOff EXCEPT !.pc = "enter", !.pos = gn_in.start,
                          !.data_len = gn_in.data_len,
                          !.name_len = gn_in.name_len]

\* the value the outermost call returns when the innermost one returns r:
\* every caller returns 0 on 0 and its own bytes_consumed + 2 otherwise
Unwind(frames, r) ==
    IF r = 0 THEN 0
    ELSE IF frames = <<>> THEN r
    ELSE frames[1] + 2

\* module_dns.c:216-226: the tests on entry of a call
GnEnter ==
    /\ gn.pc = "enter"
    /\ IF \/ gn.data_len = 0
          \/ gn.name_len = 0
          \/ Len(gn_in.payload) = 0
          \/ RecursionExceeded(gn.recursion_level)
       THEN gn' = [gn EXCEPT !.pc = "done", !.ret = 0]
       ELSE gn' = [gn EXCEPT !.pc = "loop", !.bytes_consumed = 0]
    /\ UNCHANGED gn_in

\* module_dns.c:229-350: one pass of the while loop of the innermost call
GnLoop ==
    /\ gn.pc = "loop"
    /\ IF gn.data_len <= 0
       THEN gn' = [gn EXCEPT !.pc = "done", !.failed = "assert(0)"]
       ELSE
       LET byte == gn_in.payload[gn.pos + 1]
       IN IF byte >= POINTER_BYTE
          THEN IF gn.data_len < 2
               THEN gn' = [gn EXCEPT !.pc = "done", !.ret = 0]
               ELSE
               LET offset == PointerOffset(byte, gn_in.payload[gn.pos + 2])
                   dot == gn.recursion_level > 0 \/ gn.bytes_consumed > 0
               IN IF offset >= Len(gn_in.payload)
                  THEN gn' = [gn EXCEPT !.pc = "done", !.ret = 0]
                  ELSE IF dot /\ gn.name_len < 1
                  THEN gn' = [gn EXCEPT !.pc = "done", !.ret = 0]
                  ELSE gn' = [gn EXCEPT
                         !.pc = "enter",
                         !.recursion_level = @ + 1,
                         !.frames = Append(@, gn.bytes_consumed),
                         !.pos = offset,
                         !.data_len = Len(gn_in.payload) - offset,
                         !.name = IF dot THEN Append(@, DOT) ELSE @,
                         !.name_len = IF dot THEN @ - 1 ELSE @]
          ELSE IF byte = 0
          THEN gn' = [gn EXCEPT
                        !.pc = "done",
                        !.bytes_consumed = @ + 1,
                        !.ret = Unwind(gn.frames, gn.bytes_consumed + 1)]
          ELSE
          LET data_len1 == gn.data_len - 1
              dot == gn.bytes_consumed > 0
              name_len1 == IF dot THEN gn.name_len - 1 ELSE gn.name_len
              data_len2 == data_len1 - byte
          IN IF byte + 1 > data_len1
             THEN gn' = [gn EXCEPT !.pc = "done", !.ret = 0]
             ELSE IF dot /\ gn.name_len < 1
             THEN gn' = [gn EXCEPT !.pc = "done", !.ret = 0]
             ELSE IF LabelTooLong(byte, name_len1)
             THEN gn' = [gn EXCEPT !.pc = "done", !.ret = 0]
             ELSE IF data_len1 <= 0 \/ data_len2 <= 0
             THEN gn' = [gn EXCEPT !.pc = "done",
                                   !.failed = "assert(data_len > 0)"]
             ELSE gn' = [gn EXCEPT
                    !.name = (IF dot THEN Append(@, DOT) ELSE @) \o
                             SubSeq(gn_in.payload, gn.pos + 2,
                                    gn.pos + 1 + byte),
                    !.name_len = (name_len1 - byte) % 65536,
                    !.data_len = data_len2,
                    !.pos = @ + 1 + byte,
                    !.bytes_consumed = @ + 1 + byte]
    /\ UNCHANGED gn_in

RECURSIVE Chase(_, _, _)
\* following n pointers from offset p of the payload never leaves pointers
Chase(q, p, n) ==
    IF n = 0 THEN TRUE
    ELSE /\ p + 2 <= Len(q)
         /\ q[p + 1] >= POINTER_BYTE
         /\ PointerOffset(q[p + 1], q[p + 2]) < Len(q)
         /\ Chase(q, PointerOffset(q[p + 1], q[p + 2]), n - 1)

\* the data starts a chain of compression pointers that runs in a cycle
PointerCycle ==
    /\ gn_in.data_len >= 2
    /\ Chase(gn_in.payload, gn_in.start, Len(gn_in.payload) + 1)

\* what holds in every state of a get_name_helper call
GnSafe ==
    /\ gn.recursion_level <= MAX_LABEL_RECURSION + 1
    /\ gn.failed = "none"
    /\ Len(gn.name) <= gn_in.name_len
    /\ Len(gn.name) + gn.name_len = gn_in.name_len
    /\ (gn.pc = "done" /\ PointerCycle) => gn.ret = 0

\* C29: get_name_helper returns on every payload; the recursion level never
\* passes MAX_LABEL_RECURSION + 1; a chain of pointers that runs in a cycle
\* makes it return 0; no assertion fails; and it writes at most name_len
\* bytes into name.
C29_GetNameTerminates ==
    /\ []GnSafe
    /\ <>(gn.pc = "done")

\* a pointer that points to itself was followed down to the last level
\* allowed and the call returned 0
C29_Witness ==
    /\ gn.pc = "done"
    /\ PointerCycle
    /\ gn_in.payload[gn_in.start + 1] = POINTER_BYTE
    /\ gn_in.payload[gn_in.start + 2] = gn_in.start
    /\ gn.recursion_level = MAX_LABEL_RECURSION + 1
    /\ gn.ret = 0

----------------------------------------------------------------------------
\* send_init (src/send.c:72-203)

\* (uint32_t)zconf.senders * (uint32_t)zconf.total_shards; senders is a
\* uint8_t and total_shards a uint16_t, so the product stays below 2^32
NumSubshards(senders, total_shards) == senders * total_shards

\* a check that also refuses a scan with exactly one probe per subshard
OversubscribedOrEqual(num_subshards, count_allowed, port_count) ==
    num_subshards >= count_allowed * port_count

\* send.c:87: more subshards than allowed probes
Oversubscribed(num_subshards, count_allowed, port_count) ==
    num_subshards > count_allowed * port_count

\* a uint64_t below 2^48 is <<b2, b1, b0>>, three 16-bit limbs
U48Zero == <<0, 0, 0>>

\* b / d in uint64_t arithmetic, for a divisor below 2^15
U48Div(b, d) ==
    LET t1 == (b[1] % d) * 65536 + b[2]
        t0 == (t1 % d) * 65536 + b[3]
    IN <<b[1] \div d, t1 \div d, t0 \div d>>

\* zconf.rate = (uint64_t value below 2^32): the int keeps the low 32 bits
IntOfU32(hi, lo) ==
    IF hi >= 32768 THEN (hi - 65536) * 65536 + lo ELSE hi * 65536 + lo

\* the divisor with the minimum applied to the probe length first
PktLenMaxFirst(max_packet_length) ==
    Max(max_packet_length, 84) * 8 + 8 * 24

\* send.c:126-135: bits on the wire for one probe
PktLen(max_packet_length) ==
    LET bits == max_packet_length * 8 + 8 * 24
    IN IF bits < 84 * 8 THEN 84 * 8 ELSE bits

\* send.c:123-154: the packet rate for a bandwidth
RateOfBandwidth(bandwidth, max_packet_length) ==
    LET q == U48Div(bandwidth, PktLen(max_packet_length))
    IN IF q[1] > 0 THEN 0
       ELSE IF IntOfU32(q[2], q[3]) = 0 THEN 1
       ELSE IntOfU32(q[2], q[3])

\* send_init: "fatal" with the message logged, or "ok" with the rate set
send_init(c) ==
    LET num_subshards == NumSubshards(c.senders, c.total_shards)
        rate1 == IF c.bandwidth # U48Zero
                 THEN RateOfBandwidth(c.bandwidth, c.max_packet_length)
                 ELSE c.rate
        rate2 == IF rate1 = -1 THEN 10000 ELSE rate1
    IN IF c.ipv6_target_filename /\ ~c.ipv6_src_ok
       THEN [status |-> "fatal",
             reason |-> "could not read valid IPv6 src address",
             rate |-> c.rate]
       ELSE IF Oversubscribed(num_subshards, c.count_allowed, c.port_count)
       THEN [status |-> "fatal",
             reason |-> "senders * shards > allowed probes", rate |-> c.rate]
       ELSE IF c.max_targets # 0 /\ num_subshards > c.max_targets
       THEN [status |-> "fatal", reason |-> "senders * shards > max targets",
             rate |-> c.rate]
       ELSE IF ~c.module_init_ok
       THEN [status |-> "fatal",
             reason |-> "global initialization for probe module failed.",
             rate |-> c.rate]
       ELSE IF c.bandwidth # U48Zero /\ c.rate > 0
       THEN [status |-> "fatal",
             reason |-> "must specify rate or bandwidth, or neither, not both.",
             rate |-> c.rate]
       ELSE IF rate2 < 0
       THEN [status |-> "fatal", reason |-> "rate impossibly slow",
             rate |-> rate2]
       ELSE IF ~c.hw_mac_ok
       THEN [status |-> "fatal", reason |-> "could not retrieve the MAC",
             rate |-> rate2]
       ELSE [status |-> "ok", reason |-> "", rate |-> rate2]

InitIdle ==
    /\ init_conf = [senders |-> 1, total_shards |-> 1, count_allowed |-> 1,
                    port_count |-> 1, max_targets |-> 0,
                    bandwidth |-> U48Zero, rate |-> -1,
                    max_packet_length |-> 40, packet_streams |-> 1,
                    module_init_ok |-> TRUE, hw_mac_ok |-> TRUE,
                    ipv6_target_filename |-> FALSE, ipv6_src_ok |-> TRUE]
    /\ init_out = [status |-> "config", reason |-> "", rate |-> -1,
                   started |-> 0, delays |-> <<>>]

\* 0, 500, 10^9, 1.5 * 10^12 and 3 * 10^12 bit/s
Bandwidths ==
    {U48Zero, <<0, 0, 500>>, <<0, 15258, 51712>>, <<349, 16119, 38912>>,
     <<698, 32239, 12288>>}

SendInitConfigs ==
    /\ \E S \in {1, 2, 4, 255}, T \in {1, 2, 4, 65535},
          allowed \in {1, 8, 15, 16, 17, 16711425}, P \in {1, 2},
          mt \in {0, 3}, bw \in Bandwidths, r \in {-1, 0, 500, 10000},
          L \in {40, 70, 100},
          mod_ok \in BOOLEAN, mac_ok \in BOOLEAN,
          v6 \in {<<FALSE, TRUE>>, <<TRUE, TRUE>>, <<TRUE, FALSE>>} :
          init_conf = [senders |-> S, total_shards |-> T,
                       count_allowed |-> allowed, port_count |-> P,
                       max_targets |-> mt, bandwidth |-> bw, rate |-> r,
                       max_packet_length |-> L, packet_streams |-> 1,
                       module_init_ok |-> mod_ok,
                       hw_mac_ok |-> mac_ok,
                       ipv6_target_filename |-> v6[1], ipv6_src_ok |-> v6[2]]
    /\ init_out = [status |-> "config", reason |-> "", rate |-> -1,
                   started |-> 0, delays |-> <<>>]

\* the orchestrator calls send_init once, before it creates any sender
SendInit ==
    /\ init_out.status = "config"
    /\ init_out' = send_init(init_conf) @@ [started |-> 0, delays |-> <<>>]
    /\ UNCHANGED init_conf

\* a start-up that paces even when the rate is not positive
InitialDelaysAlwaysPaced(rate, senders, packet_streams) ==
    IF rate > 0 /\ rate >= 1000 * senders * packet_streams
    THEN {1, 10000}
    ELSE {10000}

\* send.c:271-302: the delay a sender starts with; the spin estimate depends
\* on the clock and is at least 1
InitialDelays(rate, senders, packet_streams) ==
    IF rate > 0
    THEN IF rate < 1000 * senders * packet_streams
         THEN {10000}
         ELSE {1, 10000}
    ELSE {0}

\* the orchestrator creates the next sender thread, which sets up its pacing
StartSender ==
    /\ init_out.status = "ok"
    /\ init_out.started < Min(init_conf.senders, MaxStarted)
    /\ \E delay \in InitialDelays(init_out.rate, init_conf.senders,
                                  init_conf.packet_streams) :
          init_out' = [init_out EXCEPT !.started = @ + 1,
                                       !.delays = Append(@, delay)]
    /\ UNCHANGED init_conf

\* C10: send_init ends in a fatal error and no sender starts whenever
\* senders x total_shards > count_allowed x port_count (the error is
\* "senders * shards > allowed probes" unless the IPv6 source address was
\* refused first); it does not fail for this reason otherwise.
C10_OversubscriptionRefused ==
    init_out.status # "config" =>
        IF init_conf.senders * init_conf.total_shards >
               init_conf.count_allowed * init_conf.port_count
        THEN /\ init_out.status = "fatal"
             /\ init_out.reason \in
                    {"senders * shards > allowed probes",
                     "could not read valid IPv6 src address"}
             /\ (init_out.reason = "could not read valid IPv6 src address"
                    => init_conf.ipv6_target_filename)
             /\ init_out.started = 0
        ELSE init_out.reason # "senders * shards > allowed probes"

\* S = 4, T = 4, count_allowed = 8, one port: refused
C10_Witness ==
    /\ init_conf.senders = 4
    /\ init_conf.total_shards = 4
    /\ init_conf.count_allowed = 8
    /\ init_conf.port_count = 1
    /\ init_out.status = "fatal"
    /\ init_out.reason = "senders * shards > allowed probes"

\* send_init got as far as the rate processing of send.c:117-163
RateProcessed ==
    \/ init_out.status = "ok"
    \/ init_out.reason \in {"rate impossibly slow",
                            "could not retrieve the MAC"}

C12_ZeroRateIsFatal ==
    /\ (RateProcessed /\ init_out.rate = 0) => init_out.status = "fatal"
    /\ \A k \in 1 .. Len(init_out.delays) : init_out.delays[k] > 0

\* C12 as amended: send_init refuses a rate only when it is negative; with
\* an effective rate of 0 it succeeds (the MAC permitting) and every sender
\* starts with delay 0, that is without rate limiting, while with a positive
\* rate every sender starts with a delay of at least 1.
C12_ZeroRateMeansUnlimited ==
    RateProcessed =>
        /\ (init_out.reason = "rate impossibly slow") <=> (init_out.rate < 0)
        /\ (init_out.rate = 0 /\ init_conf.hw_mac_ok)
               => init_out.status = "ok"
        /\ \A k \in 1 .. Len(init_out.delays) :
               (init_out.delays[k] = 0) <=> (init_out.rate = 0)

\* a sender started without pacing after send_init accepted the rate 0
C12_Witness ==
    /\ init_out.status = "ok"
    /\ init_out.rate = 0
    /\ init_conf.bandwidth = U48Zero
    /\ Len(init_out.delays) >= 1
    /\ init_out.delays[1] = 0

----------------------------------------------------------------------------
\* The rate knob: sig_handler_increase_speed, sig_handler_decrease_speed
\* (src/send.c:55-69) and the adaptive timing of send_run (send.c:263-386)

\* handler activations that can be in progress at once, and the senders
Handlers == 1 .. 2
PaceSenders == 1 .. 2
PacketStreams == 1
slow_rate == 1000

\* zconf.rate += (zconf.rate * 0.05): the sum is a double, converted to int
\* by dropping the fraction
IncreaseSpeed(rate) == (rate * 21) \div 20

\* zconf.rate -= (zconf.rate * 0.05)
DecreaseSpeed(rate) == (rate * 19) \div 20

\* what a handler stores for the value it read
SigUpdate(kind, old) ==
    IF kind = "SIGUSR1" THEN IncreaseSpeed(old) ELSE DecreaseSpeed(old)

NoUpdate == [kind |-> "none", before |-> 0, after |-> 0]

RateIdle ==
    /\ zconf_rate = 10000
    /\ sig_h = [h \in Handlers |-> [pc |-> "off", kind |-> "none", old |-> 0]]
    /\ sig_log = [start |-> 10000, delivered |-> <<>>, overlapped |-> FALSE,
                  last |-> NoUpdate]
    /\ snd_pace = [t \in PaceSenders |-> [pc |-> "off", rate0 |-> 0,
                                          delay |-> 0, target_from |-> 0,
                                          rate_at_cycle |-> 0]]

\* after send_init installed the handlers (send.c:199-200)
RateInit ==
    /\ zconf_rate \in {1, 10, 19, 20, 1000, 10000}
    /\ sig_h = [h \in Handlers |-> [pc |-> "idle", kind |-> "none", old |-> 0]]
    /\ sig_log = [start |-> zconf_rate, delivered |-> <<>>,
                  overlapped |-> FALSE, last |-> NoUpdate]
    /\ snd_pace = [t \in PaceSenders |-> [pc |-> "new", rate0 |-> 0,
                                          delay |-> 0, target_from |-> 0,
                                          rate_at_cycle |-> 0]]

\* a signal is delivered to some thread: the handler starts and reads
\* zconf.rate (send.c:57-58, 65-66)
SigEnter(h, kind) ==
    /\ sig_h[h].pc = "idle"
    /\ Len(sig_log.delivered) < MaxSignals
    /\ sig_h' = [sig_h EXCEPT ![h] = [pc |-> "read", kind |-> kind,
                                      old |-> zconf_rate]]
    /\ sig_log' = [sig_log EXCEPT
                      !.delivered = Append(@, kind),
                      !.overlapped =
                          @ \/ \E g \in Handlers : sig_h[g].pc = "read"]
    /\ UNCHANGED <<zconf_rate, snd_pace>>

\* the handler stores the new rate and returns (send.c:58-60, 66-68)
SigWrite(h) ==
    /\ sig_h[h].pc = "read"
    /\ zconf_rate' = SigUpdate(sig_h[h].kind, sig_h[h].old)
    /\ sig_log' = [sig_log EXCEPT
                      !.last = [kind |-> sig_h[h].kind,
                                before |-> sig_h[h].old,
                                after |-> zconf_rate']]
    /\ sig_h' = [sig_h EXCEPT ![h] = [pc |-> "idle", kind |-> "none",
                                      old |-> 0]]
    /\ UNCHANGED snd_pace

\* send.c:271-302: a sender computes send_rate from zconf.rate once
SenderRateInit(t) ==
    /\ snd_pace[t].pc = "new"
    /\ \E delay \in InitialDelays(zconf_rate, Cardinality(PaceSenders),
                                  PacketStreams) :
          snd_pace' = [snd_pace EXCEPT ![t] =
                          [pc |-> "loop", rate0 |-> zconf_rate,
                           delay |-> delay, target_from |-> 0,
                           rate_at_cycle |-> 0]]
    /\ UNCHANGED <<zconf_rate, sig_h, sig_log>>

\* send_rate < slow_rate, with send_rate = rate0 / (senders * packet_streams)
SleepMode(p) ==
    p.rate0 < slow_rate * Cardinality(PaceSenders) * PacketStreams

\* send.c:340-386: one measurement cycle of the adaptive timing; the sleep
\* update divides by send_rate, the multiplier by zconf.rate / zconf.senders
SenderPace(t) ==
    /\ snd_pace[t].pc \in {"loop", "paced"}
    /\ snd_pace[t].delay > 0
    /\ snd_pace' = [snd_pace EXCEPT
                      ![t].pc = "paced",
                      ![t].target_from = IF SleepMode(snd_pace[t])
                                         THEN snd_pace[t].rate0
                                         ELSE zconf_rate,
                      ![t].rate_at_cycle = zconf_rate]
    /\ UNCHANGED <<zconf_rate, sig_h, sig_log>>

\* the rates that applying a SIGUSR1 steps and b SIGUSR2 steps one after
\* another, in any order, can give
RECURSIVE SequentialRates(_, _, _)
SequentialRates(rate, a, b) ==
    IF a = 0 /\ b = 0 THEN {rate}
    ELSE (IF a > 0 THEN SequentialRates(IncreaseSpeed(rate), a - 1, b)
                   ELSE {})
         \cup
         (IF b > 0 THEN SequentialRates(DecreaseSpeed(rate), a, b - 1)
                   ELSE {})

CountOf(seq, kind) == Cardinality({k \in 1 .. Len(seq) : seq[k] = kind})

HandlersDone == \A h \in Handlers : sig_h[h].pc = "idle"

\* C13: each SIGUSR1 makes a positive rate strictly greater, each SIGUSR2
\* strictly smaller, and three SIGUSR1 one after another take 10000 to 11576.
C13_SignalsMoveRate ==
    /\ (sig_log.last.kind = "SIGUSR1" /\ sig_log.last.before > 0)
           => sig_log.last.after > sig_log.last.before
    /\ (sig_log.last.kind = "SIGUSR2" /\ sig_log.last.before > 0)
           => sig_log.last.after < sig_log.last.before
    /\ (/\ sig_log.start = 10000
        /\ sig_log.delivered = <<"SIGUSR1", "SIGUSR1", "SIGUSR1">>
        /\ ~sig_log.overlapped
        /\ HandlersDone) => zconf_rate = 11576

\* C14: no update is lost: once every handler has returned, the rate is the
\* result of applying every delivered step one after another in some order.
C14_NoLostUpdate ==
    HandlersDone =>
        zconf_rate \in SequentialRates(sig_log.start,
                                       CountOf(sig_log.delivered, "SIGUSR1"),
                                       CountOf(sig_log.delivered, "SIGUSR2"))

\* C15: a sender's measurement cycle uses a target computed from the
\* zconf.rate of that moment, in sleep mode and in spin-delay mode.
C15_PacingFollowsRate ==
    \A t \in PaceSenders :
        snd_pace[t].pc = "paced" =>
            snd_pace[t].target_from = snd_pace[t].rate_at_cycle

----------------------------------------------------------------------------
\* The spin-delay controller of send_run (src/send.c:263-302 and 339-386)

\* a factor between doubles as <<num, den>>; a den of 0 is +infinity
Multipliers ==
    {<<1, 1000>>, <<1, 2>>, <<1, 1>>, <<3, 2>>, <<1000, 1>>, <<30000, 1>>}

Infinity == <<1, 0>>

\* what converting a double outside the range of uint32_t can leave in one
UndefinedU32 == {U32(0, 0), U32(0, 1), U32(32768, 0), U32(65535, 65535)}

\* delay *= m for a uint32_t delay and a double m: the product is a double,
\* converted back by dropping the fraction; undefined outside uint32_t
Times32(v, m) ==
    IF m[2] = 0 THEN UndefinedU32
    ELSE LET H == v[1] * m[1]
             rest == (H % m[2]) * 65536 + v[2] * m[1]
             lo == rest \div m[2]
             hi == (H \div m[2]) + (lo \div 65536)
         IN IF hi >= 65536 THEN UndefinedU32 ELSE {U32(hi, lo % 65536)}

\* delay *= 2, in unsigned arithmetic
Twice32(v) ==
    U32((2 * v[1] + ((2 * v[2]) \div 65536)) % 65536, (2 * v[2]) % 65536)

\* delay *= 0.5
Half32(v) == U32(v[1] \div 2, ((v[1] % 2) * 65536 + v[2]) \div 2)

\* a controller without the clamp
NoClamp(d) == d

\* if (delay == 0) delay = 1 (send.c:296-300 and 374-381)
ClampDelay(d) == IF d = U32(0, 0) THEN U32(0, 1) ELSE d

\* send.c:367-373: a delay the multiplier left unchanged is doubled or halved
Nudge(d, old_delay, m) ==
    IF d # old_delay THEN d
    ELSE IF m[1] > m[2] THEN Twice32(d)
    ELSE IF m[1] < m[2] THEN Half32(d)
    ELSE d

\* send.c:365-381: the delays a measurement with multiplier m can leave
MeasuredDelays(delay, m) ==
    {ClampDelay(Nudge(d, delay, m)) : d \in Times32(delay, m)}

\* send.c:271-302: the mode, delay and interval a sender starts with; the
\* spin estimate scales 10000 by a factor measured with the clock
PaceStart(rate, senders, packet_streams) ==
    IF rate > 0
    THEN IF rate < slow_rate * senders * packet_streams
         THEN {[sleep |-> TRUE, delay |-> U32(0, 10000), interval |-> 0]}
         ELSE {[sleep |-> FALSE, delay |-> ClampDelay(d),
                interval |-> rate \div (senders * 20)] :
                  d \in UNION {Times32(U32(0, 10000), f) :
                                 f \in Multipliers}}
    ELSE {[sleep |-> TRUE, delay |-> U32(0, 0), interval |-> 0]}

\* zconf.rate after n SIGUSR2 signals handled one after another
RECURSIVE DecreasedBy(_, _)
DecreasedBy(rate, n) ==
    IF n = 0 THEN rate ELSE DecreaseSpeed(DecreasedBy(rate, n - 1))

\* the multipliers one measurement can see: the observed rate over
\* zconf.rate / zconf.senders, an integer quotient that may be 0
ObservedMultipliers(p) ==
    IF p.rate_now \div p.senders = 0 THEN {Infinity} ELSE Multipliers

PaceRates == {0, 500, 1000, 2400}

PaceOff ==
    [pc |-> "idle", rate |-> 0, senders |-> 1, packet_streams |-> 1,
     rate_now |-> 0, sleep |-> TRUE, delay |-> U32(0, 0), interval |-> 0,
     count |-> 0, last_count |-> 0, updates |-> 0, lows |-> 0,
     failed |-> "none"]

PaceIdle == pace = PaceOff

PaceInit ==
    \E r \in PaceRates, n \in 1 .. 2, ps \in 1 .. 2 :
       pace = [PaceOff EXCEPT !.pc = "new", !.rate = r, !.senders = n,
                              !.packet_streams = ps, !.rate_now = r]

\* send.c:263-302: the controller's locals are set up
PaceSetup ==
    /\ pace.pc = "new"
    /\ \E r \in PaceStart(pace.rate, pace.senders, pace.packet_streams) :
          pace' = [pace EXCEPT
                     !.sleep = r.sleep,
                     !.delay = r.delay,
                     !.interval = r.interval,
                     !.failed = IF ~r.sleep /\ r.interval <= 0
                                THEN "interval > 0" ELSE "none",
                     !.pc = IF ~r.sleep /\ r.interval <= 0
                            THEN "aborted" ELSE "run"]

\* send.c:339-386 and 422-423: one pass of the send loop; the adaptive
\* timing runs first, then count grows by one per probe of the target
PaceIteration ==
    /\ pace.pc = "run"
    /\ pace.count < MaxCount
    /\ IF /\ pace.count # 0
          /\ pace.delay # U32(0, 0)
          /\ ~pace.sleep
          /\ (pace.interval = 0 \/ pace.count % pace.interval = 0)
       THEN IF ~(pace.count > pace.last_count)
            THEN pace' = [pace EXCEPT !.failed = "count > last_count",
                                      !.pc = "aborted"]
            ELSE \E m \in ObservedMultipliers(pace) :
                 \E d \in MeasuredDelays(pace.delay, m) :
                    pace' = [pace EXCEPT
                               !.delay = d,
                               !.last_count = pace.count,
                               !.updates = @ + 1,
                               !.lows = IF m[1] < m[2] THEN @ + 1 ELSE @,
                               !.count = @ + pace.packet_streams]
       ELSE pace' = [pace EXCEPT !.count = @ + pace.packet_streams]

\* SIGUSR2 is delivered SignalBurst times while the sender runs
PaceSignalledDown ==
    /\ pace.pc = "run"
    /\ pace.rate_now > 0
    /\ pace' = [pace EXCEPT
                  !.rate_now = DecreasedBy(pace.rate_now, SignalBurst)]

\* C25: a sender that paces by spinning has a delay of at least 1 after its
\* set-up and after every measurement, whatever the multipliers; a running
\* sender's delay is 0 exactly when the configured rate is 0; and neither
\* assert(interval > 0) nor assert(count > last_count) fails.
C25_DelayAtLeastOne ==
    /\ (pace.pc = "run" /\ ~pace.sleep) => pace.delay # U32(0, 0)
    /\ pace.pc = "run" => (pace.delay = U32(0, 0) <=> pace.rate = 0)
    /\ pace.failed = "none"

\* two measurements in a row saw a multiplier below 1 and the delay is 1
C25_Witness ==
    /\ pace.pc = "run"
    /\ ~pace.sleep
    /\ pace.updates = 2
    /\ pace.lows = 2
    /\ pace.delay = U32(0, 1)

----------------------------------------------------------------------------
\* get_src_ip (src/send.c:205-212)

\* ntohl on the four bytes of an address in network order
ntohl(bytes) == U32(bytes[1] * 256 + bytes[2], bytes[3] * 256 + bytes[4])

\* zconf.source_ip_addresses with n entries
SourcePool(n) == [k \in 1 .. n |-> 100 + k]

\* an index taken without the uint32_t addition
get_src_ip_nowrap(dst, local_offset, pool) ==
    pool[MathMod(ntohl(dst), local_offset, Len(pool)) + 1]

\* get_src_ip: ntohl(dst) + local_offset is a uint32_t sum
get_src_ip(dst, local_offset, pool) ==
    IF Len(pool) = 1
    THEN pool[1]
    ELSE pool[Mod32(Add32(ntohl(dst), local_offset), Len(pool)) + 1]

SrcDsts ==
    {<<0, 0, 0, 1>>, <<10, 0, 0, 2>>, <<192, 0, 2, 1>>, <<8, 8, 4, 4>>,
     <<127, 255, 255, 255>>, <<255, 255, 0, 0>>, <<255, 255, 255, 254>>,
     <<255, 255, 255, 255>>}

SrcIdle ==
    /\ src_in = [dst |-> <<0, 0, 0, 1>>, i |-> 0, pool |-> SourcePool(1)]
    /\ src_out = [done |-> FALSE, src_ip |-> 0]

SrcInit ==
    /\ \E dst \in SrcDsts, i \in 0 .. MaxStreams - 1, n \in 1 .. MaxPool :
          src_in = [dst |-> dst, i |-> i, pool |-> SourcePool(n)]
    /\ src_out = [done |-> FALSE, src_ip |-> 0]

\* send.c:424: uint32_t src_ip = get_src_ip(current_ip, i)
GetSrcIp ==
    /\ ~src_out.done
    /\ src_out' = [done |-> TRUE,
                   src_ip |-> get_src_ip(src_in.dst, src_in.i, src_in.pool)]
    /\ UNCHANGED src_in

\* C16: the source address of probe i to d is pool[(ntohl(d) + i) mod n],
\* the sum being an ordinary integer, and is an element of the pool.
C16_SrcIpIsPoolAtSumModN ==
    src_out.done =>
        /\ src_out.src_ip =
               src_in.pool[MathMod(ntohl(src_in.dst), src_in.i,
                                   Len(src_in.pool)) + 1]
        /\ \E k \in 1 .. Len(src_in.pool) : src_out.src_ip = src_in.pool[k]

\* what does hold: the address is pool[((ntohl(d) + i) mod 2^32) mod n]
C16_SrcIpInPool ==
    src_out.done =>
        \E k \in 1 .. Len(src_in.pool) : src_out.src_ip = src_in.pool[k]

----------------------------------------------------------------------------
\* Concurrent sender threads around send_mutex (src/send.c:215-260)

Threads == 1 .. MaxThreads

ThrIdle ==
    /\ thr = [t \in Threads |-> "none"]
    /\ mutex_owner = 0
    /\ proc_exited = FALSE

\* the orchestrator has created the sender threads
ThrInit ==
    /\ thr = [t \in Threads |-> "created"]
    /\ mutex_owner = 0
    /\ proc_exited = FALSE

\* send.c:215-218: the thread enters send_run and asks for the mutex
CallSendRun(t) ==
    /\ ~proc_exited
    /\ thr[t] = "created"
    /\ thr' = [thr EXCEPT ![t] = "lock"]
    /\ UNCHANGED <<mutex_owner, proc_exited>>

\* send.c:218: pthread_mutex_lock returns
MutexLock(t) ==
    /\ ~proc_exited
    /\ thr[t] = "lock"
    /\ mutex_owner = 0
    /\ mutex_owner' = t
    /\ thr' = [thr EXCEPT ![t] = "section"]
    /\ UNCHANGED proc_exited

\* a failure path that returns with the mutex still held
ThrSendRunInitFailsHolding(t) ==
    /\ ~proc_exited
    /\ thr[t] = "section"
    /\ thr' = [thr EXCEPT ![t] = "returned"]
    /\ UNCHANGED <<mutex_owner, proc_exited>>

\* send.c:222-226: send_run_init fails, unlock and return EXIT_FAILURE
ThrSendRunInitFails(t) ==
    /\ ~proc_exited
    /\ thr[t] = "section"
    /\ mutex_owner' = 0
    /\ thr' = [thr EXCEPT ![t] = "returned"]
    /\ UNCHANGED proc_exited

\* send.c:242-248: thread_initialize fails, unlock, then log_fatal
ThrThreadInitializeFails(t) ==
    /\ ~proc_exited
    /\ thr[t] = "section"
    /\ mutex_owner' = 0
    /\ thr' = [thr EXCEPT ![t] = "fatal"]
    /\ proc_exited' = TRUE

\* send.c:250: start-up done, unlock
ThrStartupDone(t) ==
    /\ ~proc_exited
    /\ thr[t] = "section"
    /\ mutex_owner' = 0
    /\ thr' = [thr EXCEPT ![t] = "loop"]
    /\ UNCHANGED proc_exited

\* send.c:252-260: prepare_packet fails, log_fatal
ThrPreparePacketFails(t) ==
    /\ ~proc_exited
    /\ thr[t] = "loop"
    /\ thr' = [thr EXCEPT ![t] = "fatal"]
    /\ proc_exited' = TRUE
    /\ UNCHANGED mutex_owner

\* send.c:351-352, 471: the thread blocks in nanosleep or in send_batch
ThrBlock(t) ==
    /\ ~proc_exited
    /\ thr[t] = "loop"
    /\ \E where \in {"nanosleep", "send_batch"} :
          thr' = [thr EXCEPT ![t] = where]
    /\ UNCHANGED <<mutex_owner, proc_exited>>

\* nanosleep or send_batch returns
ThrUnblock(t) ==
    /\ ~proc_exited
    /\ thr[t] \in {"nanosleep", "send_batch"}
    /\ thr' = [thr EXCEPT ![t] = "loop"]
    /\ UNCHANGED <<mutex_owner, proc_exited>>

\* send.c:521-543: cleanup and return
ThrReturn(t) ==
    /\ ~proc_exited
    /\ thr[t] = "loop"
    /\ thr' = [thr EXCEPT ![t] = "returned"]
    /\ UNCHANGED <<mutex_owner, proc_exited>>

\* one thread at most is in the start-up section, and it is the owner
MutexSafe ==
    /\ \A t, u \in Threads :
           (thr[t] = "section" /\ thr[u] = "section") => t = u
    /\ \A t \in Threads : thr[t] = "section" => mutex_owner = t
    /\ \A t \in Threads :
           thr[t] \in {"loop", "send_batch", "nanosleep", "returned", "fatal"}
               => mutex_owner # t

\* C17: at most one thread is in the start-up section; the mutex is released
\* on every path out of it, so no thread holds it in the send loop, while
\* blocked in send_batch or nanosleep, or after returning; and every thread
\* that calls send_run gets the mutex (unless log_fatal ended the process).
C17_MutexDiscipline ==
    /\ []MutexSafe
    /\ \A t \in Threads :
           (thr[t] = "lock") ~> (thr[t] = "section" \/ proc_exited)

\* one thread is in the section while another waits and a third sleeps
C17_Witness ==
    \E t, u, w \in Threads :
        /\ thr[t] = "section"
        /\ thr[u] = "lock"
        /\ thr[w] = "nanosleep"

----------------------------------------------------------------------------
\* Specifications

SendIdle ==
    /\ zconf = [dryrun |-> FALSE, packet_streams |-> 1, batch |-> 1,
                list_of_ips_filename |-> FALSE, ports |-> <<53, 80>>,
                max_runtime |-> 0]
    /\ ipv6 = FALSE
    /\ pbm = {}
    /\ shard = [targets |-> <<>>, pos |-> 1,
                state |-> [packets_sent |-> 0, packets_failed |-> 0,
                           targets_scanned |-> 0, max_targets |-> 0,
                           max_packets |-> 0]]
    /\ ipv6_file = [addrs |-> <<>>, pos |-> 1]
    /\ pc = "start"
    /\ send_mutex = FALSE
    /\ current = DoneTarget
    /\ current_ip = 0
    /\ current_port = 0
    /\ ipv6_dst = 0
    /\ probe_i = 0
    /\ batch = <<>>
    /\ zrecv_complete = FALSE
    /\ runtime_over = FALSE
    /\ built = <<>>
    /\ sb = [calls |-> 0, pkts |-> <<>>, accepted |-> 0, shortfall |-> 0]
    /\ printed = <<>>
    /\ cb_calls = 0
    /\ ret = -1

OnlySend ==
    UNCHANGED <<portVars, dnsVars, initVars,
                rateVars, srcVars, thrVars,
                paceVars,
                cksumVars,
                nameVars,
                parseVars>>

Init ==
    /\ SendInitState /\ PortsIdle /\ DnsIdle /\ InitIdle
    /\ RateIdle /\ SrcIdle /\ ThrIdle
    /\ PaceIdle
    /\ CksumIdle
    /\ NameIdle
    /\ ParseIdle

Next ==
    \/ (SendRunStart /\ OnlySend)
    \/ (SendRunInitFails /\ OnlySend)
    \/ (ThreadInitializeFails /\ OnlySend)
    \/ (SendRunInitOk /\ OnlySend)
    \/ (GetFirstTarget /\ OnlySend)
    \/ (LoopCheck /\ OnlySend)
    \/ (BuildProbe /\ OnlySend)
    \/ (AdvanceTarget /\ OnlySend)
    \/ (Cleanup /\ OnlySend)
    \/ (RecvComplete /\ OnlySend)
    \/ (RuntimeElapses /\ OnlySend)

Spec == Init /\ [][Next]_vars

InitList ==
    /\ SendListState /\ PortsIdle /\ DnsIdle /\ InitIdle
    /\ RateIdle /\ SrcIdle /\ ThrIdle
    /\ PaceIdle
    /\ CksumIdle
    /\ NameIdle
    /\ ParseIdle

SpecList == InitList /\ [][Next]_vars

OnlyPace ==
    UNCHANGED <<sendVars, portVars, dnsVars, initVars,
                rateVars, srcVars, thrVars,
                cksumVars,
                nameVars,
                parseVars>>

InitPace ==
    /\ SendIdle /\ PortsIdle /\ DnsIdle /\ InitIdle
    /\ RateIdle /\ SrcIdle /\ ThrIdle /\ PaceInit
    /\ CksumIdle
    /\ NameIdle
    /\ ParseIdle

NextPace ==
    \/ (PaceSetup /\ OnlyPace)
    \/ (PaceIteration /\ OnlyPace)
    \/ (PaceSignalledDown /\ OnlyPace)

SpecPace == InitPace /\ [][NextPace]_vars

OnlyCksum ==
    UNCHANGED <<sendVars, portVars, dnsVars, initVars,
                rateVars, srcVars, thrVars, paceVars,
                nameVars,
                parseVars>>

InitCksum ==
    /\ SendIdle /\ PortsIdle /\ DnsIdle /\ InitIdle
    /\ RateIdle /\ SrcIdle /\ ThrIdle /\ PaceIdle /\ CksumInit
    /\ NameIdle
    /\ ParseIdle

NextCksum ==
    \/ (IpChecksum /\ OnlyCksum)

SpecCksum == InitCksum /\ [][NextCksum]_vars

OnlyName ==
    UNCHANGED <<sendVars, portVars, dnsVars, initVars,
                rateVars, srcVars, thrVars, paceVars, cksumVars,
                parseVars>>

InitName ==
    /\ SendIdle /\ PortsIdle /\ DnsIdle /\ InitIdle
    /\ RateIdle /\ SrcIdle /\ ThrIdle /\ PaceIdle /\ CksumIdle
    /\ NameInit
    /\ ParseIdle

NextName ==
    \/ (GnEnter /\ OnlyName)
    \/ (GnLoop /\ OnlyName)

SpecName == InitName /\ [][NextName]_vars

\* a call that was made runs on: nothing in get_name_helper blocks
SpecNameFair == SpecName /\ WF_vars(NextName)

OnlyParse ==
    UNCHANGED <<sendVars, portVars, dnsVars, initVars,
                rateVars, srcVars, thrVars, paceVars, cksumVars,
                nameVars>>

InitParse ==
    /\ SendIdle /\ PortsIdle /\ DnsIdle /\ InitIdle
    /\ RateIdle /\ SrcIdle /\ ThrIdle /\ PaceIdle /\ CksumIdle
    /\ NameIdle /\ ParseInit

NextParse ==
    \/ (DnsParseRecords /\ OnlyParse)

SpecParse == InitParse /\ [][NextParse]_vars

\* one step of the sender thread itself
SenderStep ==
    \/ SendRunStart \/ SendRunInitFails \/ ThreadInitializeFails
    \/ SendRunInitOk \/ GetFirstTarget \/ LoopCheck \/ BuildProbe
    \/ AdvanceTarget \/ Cleanup

\* the sender thread keeps running: send_batch, the pacing sleep and the
\* shard calls return
SpecFair == Spec /\ WF_vars(SenderStep /\ OnlySend)

OnlyPorts ==
    UNCHANGED <<sendVars, dnsVars, initVars,
                rateVars, srcVars, thrVars,
                paceVars,
                cksumVars,
                nameVars,
                parseVars>>

InitPorts ==
    /\ SendIdle /\ PortsInit /\ DnsIdle /\ InitIdle
    /\ RateIdle /\ SrcIdle /\ ThrIdle
    /\ PaceIdle
    /\ CksumIdle
    /\ NameIdle
    /\ ParseIdle

NextPorts ==
    \/ (GetSrcPort /\ OnlyPorts)
    \/ (CheckDstPort /\ OnlyPorts)

SpecPorts == InitPorts /\ [][NextPorts]_vars

OnlyDns ==
    UNCHANGED <<sendVars, portVars, initVars,
                rateVars, srcVars, thrVars,
                paceVars,
                cksumVars,
                nameVars,
                parseVars>>

InitDns ==
    /\ SendIdle /\ PortsIdle /\ DnsInit /\ InitIdle
    /\ RateIdle /\ SrcIdle /\ ThrIdle
    /\ PaceIdle
    /\ CksumIdle
    /\ NameIdle
    /\ ParseIdle

NextDns ==
    \/ (DnsGlobalInitialize /\ OnlyDns)
    \/ (DnsMakePacket /\ OnlyDns)
    \/ (DnsReceive /\ OnlyDns)
    \/ (DnsProcess /\ OnlyDns)
    \/ (DnsNextResponse /\ OnlyDns)

SpecDns == InitDns /\ [][NextDns]_vars

InitDnsPad ==
    /\ SendIdle /\ PortsIdle /\ DnsPadInit /\ InitIdle
    /\ RateIdle /\ SrcIdle /\ ThrIdle
    /\ PaceIdle
    /\ CksumIdle
    /\ NameIdle
    /\ ParseIdle

SpecDnsPad == InitDnsPad /\ [][NextDns]_vars

OnlyInit ==
    UNCHANGED <<sendVars, portVars, dnsVars,
                rateVars, srcVars, thrVars,
                paceVars,
                cksumVars,
                nameVars,
                parseVars>>

InitSendInit ==
    /\ SendIdle /\ PortsIdle /\ DnsIdle /\ SendInitConfigs
    /\ RateIdle /\ SrcIdle /\ ThrIdle
    /\ PaceIdle
    /\ CksumIdle
    /\ NameIdle
    /\ ParseIdle

NextSendInit ==
    \/ (SendInit /\ OnlyInit)
    \/ (StartSender /\ OnlyInit)

SpecInit == InitSendInit /\ [][NextSendInit]_vars

OnlyRate ==
    UNCHANGED <<sendVars, portVars, dnsVars,
                initVars, srcVars, thrVars,
                paceVars,
                cksumVars,
                nameVars,
                parseVars>>

InitRate ==
    /\ SendIdle /\ PortsIdle /\ DnsIdle /\ InitIdle
    /\ RateInit /\ SrcIdle /\ ThrIdle
    /\ PaceIdle
    /\ CksumIdle
    /\ NameIdle
    /\ ParseIdle

NextRate ==
    \/ (\E h \in Handlers, kind \in {"SIGUSR1", "SIGUSR2"} :
           SigEnter(h, kind) /\ OnlyRate)
    \/ (\E h \in Handlers : SigWrite(h) /\ OnlyRate)
    \/ (\E t \in PaceSenders : SenderRateInit(t) /\ OnlyRate)
    \/ (\E t \in PaceSenders : SenderPace(t) /\ OnlyRate)

SpecRate == InitRate /\ [][NextRate]_vars

OnlySrcIp ==
    UNCHANGED <<sendVars, portVars, dnsVars,
                initVars, rateVars, thrVars,
                paceVars,
                cksumVars,
                nameVars,
                parseVars>>

InitSrcIp ==
    /\ SendIdle /\ PortsIdle /\ DnsIdle /\ InitIdle
    /\ RateIdle /\ SrcInit /\ ThrIdle
    /\ PaceIdle
    /\ CksumIdle
    /\ NameIdle
    /\ ParseIdle

NextSrcIp == GetSrcIp /\ OnlySrcIp

SpecSrcIp == InitSrcIp /\ [][NextSrcIp]_vars

OnlyThreads ==
    UNCHANGED <<sendVars, portVars, dnsVars,
                initVars, rateVars, srcVars,
                paceVars,
                cksumVars,
                nameVars,
                parseVars>>

InitThreads ==
    /\ SendIdle /\ PortsIdle /\ DnsIdle /\ InitIdle
    /\ RateIdle /\ SrcIdle /\ ThrInit
    /\ PaceIdle
    /\ CksumIdle
    /\ NameIdle
    /\ ParseIdle

NextThreads ==
    \/ (\E t \in Threads : CallSendRun(t) /\ OnlyThreads)
    \/ (\E t \in Threads : MutexLock(t) /\ OnlyThreads)
    \/ (\E t \in Threads : ThrSendRunInitFails(t) /\ OnlyThreads)
    \/ (\E t \in Threads : ThrThreadInitializeFails(t) /\ OnlyThreads)
    \/ (\E t \in Threads : ThrStartupDone(t) /\ OnlyThreads)
    \/ (\E t \in Threads : ThrPreparePacketFails(t) /\ OnlyThreads)
    \/ (\E t \in Threads : ThrBlock(t) /\ OnlyThreads)
    \/ (\E t \in Threads : ThrUnblock(t) /\ OnlyThreads)
    \/ (\E t \in Threads : ThrReturn(t) /\ OnlyThreads)

SpecThreads == InitThreads /\ [][NextThreads]_vars

\* a thread in the start-up section leaves it (the section terminates)
LeaveSection(t) ==
    \/ ThrSendRunInitFails(t)
    \/ ThrThreadInitializeFails(t)
    \/ ThrStartupDone(t)

\* a free mutex is handed to a thread waiting for it, and start-up sections
\* terminate
SpecThreadsFair ==
    /\ SpecThreads
    /\ \A t \in Threads :
           /\ WF_vars(MutexLock(t) /\ OnlyThreads)
           /\ WF_vars(LeaveSection(t) /\ OnlyThreads)

====
